---- MODULE Spec2Model ----
(***************************************************************************)
(* Model of the chat streaming substrate of claudex (backend/app):         *)
(*   - the event log store (MessageService.append_event_with_next_seq,     *)
(*     get_chat_events_after_seq, delete_messages_after),                  *)
(*   - the snapshot store (MessageService.update_message_snapshot),        *)
(*   - the cancellation registry (CancellationHandler),                    *)
(*   - the stream runtime (ChatStreamRuntime in streaming/runtime.py) with *)
(*     its context-usage poller and the permission endpoint,               *)
(*   - the follow-up queue (QueueService).                                 *)
(* One chat is modelled: every claim of the development is per chat.       *)
(***************************************************************************)
EXTENDS Integers, Sequences, FiniteSets, TLC

\* ------------------------------------------------------------------ bounds
MaxSeq == 3          \* cap on Chat.last_event_seq in the event-log specification
MaxMsgs == 2         \* assistant messages that can be created
MaxBatch == 2        \* largest batch one batch append allocates
PollLimit == 1       \* rows one resumer read returns (limit of the range read)

Callers == {1, 2}    \* concurrent callers of the event-log operations
MsgIds == 1..MaxMsgs
Cursors == {0, 1}    \* after_seq / Last-Event-ID values a client connects with

MaxAgentEvents == 2  \* events the agent stream of one runtime can yield
MaxBurst == 25       \* events the agent stream of a long turn can yield
FirstYear == 2024    \* the calendar of from-times starts on 1 January of this year
MaxFromDay == 366    \* from-times lie in the first MaxFromDay days of the calendar
MaxTod == 2          \* times of day are the slots 0..MaxTod
MaxOffset == 1       \* UTC offsets of the user's time zone, in slots: 0..MaxOffset
DstDay == 90         \* day number of the daylight-saving transition (31 March 2024)
MaxPolls == 1        \* refreshes the context-usage poller of one runtime makes
MaxTime == 2         \* cap on the monotonic clock
CancelTtl == 1       \* CANCEL_PENDING_TTL_SECONDS, in clock ticks
MaxUpserts == 2      \* upsert calls merged into one queue entry
MaxFollowUpEvents == 1  \* events the agent yields to a runtime started by the handoff
MaxClock == 2           \* scheduler clock values 0..MaxClock
MaxExecs == 2           \* TaskExecution rows created
Period == 1             \* timedelta(days=1): the clock counts days
StaleAfter == 1         \* age from which a running execution counts as stale
PermTtl == 2            \* PERMISSION_REQUEST_TTL_SECONDS, in clock steps
MaxTimeout == 3         \* timeout arguments of wait_for_response are 0..MaxTimeout
MaxPermTime == 3        \* registry clock values 0..MaxPermTime
MaxPublish == 1         \* denials kept per response channel
MaxCoWaiters == 2       \* concurrent wait_for_response calls on one request
MaxDupEvents == 0    \* events the agent yields to a runtime started on a held message

Runtimes == {1, 2}   \* background tasks (stream runtimes); the id is the stream id
QClients == {1, 2}   \* concurrent clients of the queue key
AgentKinds == {"assistant_text", "tool_started"}
AgentText(kind) == IF kind = "assistant_text" THEN <<"a">> ELSE <<>>
QContents == {<<"a">>, <<"b">>}
UpdateContent == <<"u">>
FollowUp == <<"q">>

NoMsg == [exists |-> FALSE, status |-> "none", active_stream_id |-> 0,
          content_text |-> <<>>, render |-> <<>>, last_seq |-> 0]
IdleTx == [pc |-> "idle", next_seq |-> 0, rows |-> <<>>]

VARIABLES
    last_event_seq,   \* Chat.last_event_seq (committed value)
    log,              \* committed MessageEvent rows of the chat, in commit order
    messages,         \* Message rows by id
    msgCount,         \* number of Message rows created so far (ids are not reused)
    tx,               \* per caller: the open transaction of an append
    chatLock,         \* caller holding the row lock on the Chat row (0: none)
    removedRows,      \* history: rows removed by the cascade of a message delete
    resState,         \* resumer: "off" | "on"
    resN,             \* resumer: the cursor it was started with
    resCursor,        \* resumer: after_seq of its next read
    resOut,           \* resumer: rows delivered to the client, in order
    rt,               \* per runtime: position and fields of ChatStreamRuntime
    poller,           \* per runtime: its context-usage poller task
    regEvent,         \* CancellationHandler._events[chat]: owner of the event (0: none)
    evSet,            \* per runtime: its cancel event is set
    pending,          \* CancellationHandler._pending[chat]: deadline (NoPending: none)
    now,              \* time.monotonic()
    perm,             \* the permission endpoint's request in progress
    queue,            \* value of the queue key of the chat (NoQueue: no key)
    qClient,          \* per queue client: its WATCH/GET/EXEC round
    qHist,            \* history: upserts applied to the entry since it was created
    clock,            \* datetime.now(timezone.utc) of the scheduler
    tasks,            \* ScheduledTask rows (committed)
    executions,       \* TaskExecution rows (committed)
    checker,          \* per check_due_tasks call: its transaction and position
    jobs,             \* per execution id: the execute_scheduled_task job
    ptime,            \* time.monotonic() of the permission registry
    preq,             \* per request id: its PendingRequest
    pwait,            \* per request id: the wait_for_response call on it
    pbus,             \* per request id: its response channel, subscriber and respond status
    runner,           \* the runner with a cancel monitor task: main task, monitor, handler
    calc,             \* one call of _next_run_utc: its arguments and what it returned
    cowait            \* per concurrent caller of wait_for_response: its call on the request

logVars == <<last_event_seq, log, messages, msgCount, tx, chatLock, removedRows>>
resVars == <<resState, resN, resCursor, resOut>>
streamVars == <<rt, poller, regEvent, evSet, pending, now, perm>>
qVars == <<qClient, qHist>>
queueVars == <<queue, qClient, qHist>>
schedVars == <<clock, tasks, executions, checker, jobs>>
permVars == <<ptime, preq, pwait, pbus>>
auxVars == <<runner, calc, cowait>>
svcVars == <<schedVars, permVars, auxVars>>
chatVars == <<logVars, resVars, streamVars, queueVars>>
vars == <<last_event_seq, log, messages, msgCount, tx, chatLock, removedRows,
          resState, resN, resCursor, resOut,
          rt, poller, regEvent, evSet, pending, now, perm, queue, qClient, qHist,
          clock, tasks, executions, checker, jobs, ptime, preq, pwait, pbus,
          runner, calc, cowait>>

SchedTasks == {1, 2}
SchedCallers == {1, 2}
ExecIds == 1..MaxExecs
Limits == {1, 2}
RecurrenceTypes == {"once", "daily"}
ReqIds == {1}
Timeouts == 0..MaxTimeout

\* ----------------------------------------------------------------- helpers
Range(s) == {s[i] : i \in 1..Len(s)}
SeqsOf(l) == {l[i].seq : i \in 1..Len(l)}
Max(a, b) == IF a >= b THEN a ELSE b

Row(seq, m, s, kind, text, src) ==
    [seq |-> seq, message_id |-> m, stream_id |-> s, kind |-> kind,
     text |-> text, src |-> src]

\* ------------------------------------------------------- Event Log Store
\* UPDATE chats SET last_event_seq = last_event_seq + 1 ... RETURNING:
\* the value the statement returns for a counter that is cur.
AllocSeq(cur) == cur + 1

\* The UPDATE takes the row lock of the Chat row and holds it to the end of
\* the transaction; a second UPDATE waits for it.
RowLockIgnored(c) == TRUE
RowLockFree(c) == chatLock = 0

\* append_event_with_next_seq, first statement: allocate the seq.
TxUpdate(c, m, s, kind) ==
    /\ tx[c].pc = "idle"
    /\ RowLockFree(c)
    /\ last_event_seq < MaxSeq
    /\ chatLock' = c
    /\ tx' = [tx EXCEPT ![c] =
                [pc |-> "updated", next_seq |-> AllocSeq(last_event_seq),
                 rows |-> <<Row(AllocSeq(last_event_seq), m, s, kind, <<>>, "caller")>>]]
    /\ UNCHANGED <<last_event_seq, log, messages, msgCount, removedRows>>

\* append_events_batch: n consecutive seqs in one transaction.
TxUpdateBatch(c, m, s, n) ==
    /\ tx[c].pc = "idle"
    /\ RowLockFree(c)
    /\ last_event_seq + n <= MaxSeq
    /\ chatLock' = c
    /\ tx' = [tx EXCEPT ![c] =
                [pc |-> "updated", next_seq |-> last_event_seq + n,
                 rows |-> [i \in 1..n |->
                             Row(last_event_seq + i, m, s, "assistant_text", <<>>, "caller")]]]
    /\ UNCHANGED <<last_event_seq, log, messages, msgCount, removedRows>>

\* append_event_with_next_seq, second statement: INSERT of the row(s). The
\* foreign key to the message makes the insert fail when the message is gone.
TxInsert(c) ==
    /\ tx[c].pc = "updated"
    /\ \A i \in 1..Len(tx[c].rows) : messages[tx[c].rows[i].message_id].exists
    /\ tx' = [tx EXCEPT ![c].pc = "inserted"]
    /\ UNCHANGED <<last_event_seq, log, messages, msgCount, chatLock, removedRows>>

\* db.commit(): counter and rows become visible together, the lock is freed.
TxCommit(c) ==
    /\ tx[c].pc = "inserted"
    /\ last_event_seq' = tx[c].next_seq
    /\ log' = log \o tx[c].rows
    /\ chatLock' = IF chatLock = c THEN 0 ELSE chatLock
    /\ tx' = [tx EXCEPT ![c] = IdleTx]
    /\ UNCHANGED <<messages, msgCount, removedRows>>

\* An exception inside the session block: the transaction rolls back, the
\* counter increment with it.
TxRollback(c) ==
    /\ tx[c].pc \in {"updated", "inserted"}
    /\ chatLock' = IF chatLock = c THEN 0 ELSE chatLock
    /\ tx' = [tx EXCEPT ![c] = IdleTx]
    /\ UNCHANGED <<last_event_seq, log, messages, msgCount, removedRows>>

\* create_message for an assistant message.
CreateMessage(m, status) ==
    /\ m = msgCount + 1
    /\ msgCount' = m
    /\ messages' = [messages EXCEPT ![m] = [NoMsg EXCEPT !.exists = TRUE, !.status = status]]

LogCreateMessage(m) ==
    /\ CreateMessage(m, "in_progress")
    /\ UNCHANGED <<last_event_seq, log, tx, chatLock, removedRows>>

\* The rows a delete of the messages created after message `after` removes
\* from the log (MessageEvent rows go with their Message).
CascadeKept(l, after) == SelectSeq(l, LAMBDA r : r.message_id <= after)
CascadeGone(l, after) == SelectSeq(l, LAMBDA r : r.message_id > after)

\* delete_messages_after(chat_id, message): the counter is not touched.
DeleteMessagesAfter(after) ==
    /\ after \in 0..MaxMsgs
    /\ \E k \in MsgIds : k > after /\ messages[k].exists
    \* an uncommitted insert holds a key-share lock on its message
    /\ \A c \in Callers : tx[c].pc = "inserted" =>
          \A i \in 1..Len(tx[c].rows) : tx[c].rows[i].message_id <= after
    /\ messages' = [k \in MsgIds |-> IF k > after THEN NoMsg ELSE messages[k]]
    /\ log' = CascadeKept(log, after)
    /\ removedRows' = removedRows \o CascadeGone(log, after)
    /\ UNCHANGED <<last_event_seq, msgCount, tx, chatLock>>

\* ---------------------------------------------------------- range reads
RECURSIVE SortBySeq(_)
SortBySeq(s) ==
    IF Len(s) = 0 THEN <<>>
    ELSE LET i == CHOOSE i \in 1..Len(s) : \A j \in 1..Len(s) : s[i].seq <= s[j].seq
             rest == [k \in 1..(Len(s) - 1) |-> IF k < i THEN s[k] ELSE s[k + 1]]
         IN <<s[i]>> \o SortBySeq(rest)

Take(s, n) == IF Len(s) <= n THEN s ELSE SubSeq(s, 1, n)

\* get_chat_events_after_seq: WHERE seq > after_seq ORDER BY seq ASC LIMIT limit
GetAtOrAfterSeq(l, after_seq, limit) ==
    Take(SortBySeq(SelectSeq(l, LAMBDA r : r.seq >= after_seq)), limit)
GetChatEventsAfterSeq(l, after_seq, limit) ==
    Take(SortBySeq(SelectSeq(l, LAMBDA r : r.seq > after_seq)), limit)

\* ----------------------------------------------------------- SSE resumer
\* stream_events: after_seq is the larger of the query parameter and the
\* Last-Event-ID header.
StreamEventsCursor(query, header) == Max(query, header)

ResumerConnect(q, h) ==
    /\ resState = "off"
    /\ resState' = "on"
    /\ resN' = StreamEventsCursor(q, h)
    /\ resCursor' = StreamEventsCursor(q, h)
    /\ resOut' = <<>>
    /\ UNCHANGED logVars

\* One iteration of the resumer loop: read the range, emit each row, advance
\* after_seq to the last seq seen.
ResumerPoll ==
    /\ resState = "on"
    /\ LET rows == GetChatEventsAfterSeq(log, resCursor, PollLimit)
       IN /\ Len(rows) > 0
          /\ resOut' = resOut \o rows
          /\ resCursor' = rows[Len(rows)].seq
    /\ UNCHANGED <<resState, resN>>
    /\ UNCHANGED logVars

\* ------------------------------------------------------- Snapshot Store
Terminal == {"completed", "interrupted", "failed"}

\* update_message_snapshot: last_seq is written as greatest(current, new);
\* stream_status is written only when given ("keep" stands for None); a
\* missing row gives rowcount 0 and nothing is written.
UpdateSnapshotLastSeq(cur, new) == Max(cur, new)

UpdateMessageSnapshot(msg, content_text, render, lseq, active, status) ==
    IF ~msg.exists THEN msg
    ELSE [msg EXCEPT !.content_text = content_text,
                     !.render = render,
                     !.last_seq = UpdateSnapshotLastSeq(msg.last_seq, lseq),
                     !.active_stream_id = active,
                     !.status = IF status = "keep" THEN msg.status ELSE status]

\* _mark_message_failed: a message that is not in_progress is left alone.
MarkMessageFailedNoop(msg, status) == msg
MarkMessageFailed(msg, status) ==
    IF ~msg.exists \/ msg.status # "in_progress" THEN msg
    ELSE UpdateMessageSnapshot(msg, msg.content_text, msg.render, msg.last_seq, 0, status)

\* ----------------------------------------------- Event log, one statement
\* The rows an append of `items` (kind, text) adds to a log whose counter is
\* `last`: consecutive seqs from the counter, one transaction.
AppendedRows(last, m, s, items, src) ==
    [i \in 1..Len(items) |->
        Row(AllocSeq(last + i - 1), m, s, items[i].kind, items[i].text, src)]

Item(kind, text) == [kind |-> kind, text |-> text]

\* ---------------------------------------------------- stream accumulator
SNAPSHOT_EVENT_KINDS ==
    {"assistant_text", "assistant_thinking", "tool_started", "tool_completed",
     "tool_failed", "prompt_suggestions", "system", "permission_request"}

RECURSIVE Concat(_)
Concat(parts) == IF Len(parts) = 0 THEN <<>> ELSE Head(parts) \o Concat(Tail(parts))

\* StreamSnapshotAccumulator.add_event: the text of an assistant_text event
\* joins text_parts when it is a non-empty string.
AddTextPartLast(parts, kind, text) ==
    IF kind = "assistant_text" /\ Len(text) > 0 THEN <<text>> ELSE parts
AddTextPart(parts, kind, text) ==
    IF kind = "assistant_text" /\ Len(text) > 0 THEN Append(parts, text) ELSE parts

\* StreamSnapshotAccumulator.content_text
ContentText(parts) == Concat(parts)

\* ------------------------------------------------- Cancellation Registry
NoPending == -1

\* _prune_pending: a deadline below now is dropped.
PrunePending(p, t) == IF p # NoPending /\ p < t THEN NoPending ELSE p

\* register: the fresh event is set iff a pending deadline was popped and has
\* not passed.
RegisterIgnoresPending(deadline, t) == FALSE
RegisterPreset(deadline, t) == deadline # NoPending /\ deadline >= t

\* unregister: what is left of the pending flag.
UnregisterPending(p) == NoPending

\* unregister: what is left of the registration when `event` (of runtime r)
\* is handed in and `current` is registered.
UnregisterEventAlways(current, r) == 0
UnregisterEvent(current, r) == IF current = r THEN 0 ELSE current

\* ----------------------------------------------------------- run outcome
\* run(): interrupted when a cancel was observed, else failed when the loop
\* ended without events, else completed.
RunOutcome(cancelled, event_count) ==
    IF cancelled THEN "interrupted"
    ELSE IF event_count = 0 THEN "failed" ELSE "completed"

\* _complete_stream: the kind of the terminal control event.
TerminalKind(status) == IF status = "interrupted" THEN "cancelled" ELSE "complete"

\* _flush_snapshot(force=False): flush iff something is pending and 200 ms
\* have passed (elapsed) or FlushCount events are pending.
FlushCount == 24
FlushDueLate(n, elapsed) == n > 0 /\ (elapsed \/ n > FlushCount)
FlushDue(n, elapsed) == n > 0 /\ (elapsed \/ n >= FlushCount)

\* ------------------------------------------------------------ Queue Store
NoQueue == [id |-> 0, content |-> <<>>, model_id |-> 0]
NewLine == <<"\n">>

\* upsert_message: the value written for `raw` read from the key.
UpsertDataPrepend(raw, content, model_id) ==
    IF raw = NoQueue
    THEN [id |-> 1, content |-> content, model_id |-> model_id]
    ELSE [raw EXCEPT !.content = content \o NewLine \o raw.content, !.model_id = model_id]
UpsertData(raw, content, model_id) ==
    IF raw = NoQueue
    THEN [id |-> 1, content |-> content, model_id |-> model_id]
    ELSE [raw EXCEPT !.content = raw.content \o NewLine \o content, !.model_id = model_id]

\* update_message: content is replaced.
UpdateData(raw, content) == [raw EXCEPT !.content = content]

\* pop_next_message (GETDEL) / clear_queue (DEL) / expiry: what the key holds
\* afterwards.
PopNextMessageKeeps(q) == q
PopNextMessage(q) == NoQueue

IdleClient == [pc |-> "idle", op |-> "none", raw |-> NoQueue, content |-> <<>>,
               dirty |-> FALSE, attempts |-> 0]
NoHist == [calls |-> <<>>, updated |-> FALSE, during |-> 0]

\* A write of the key makes every WATCH on it fail at EXEC.
TouchNoWatch(c) == [k \in QClients |-> IF k = c THEN IdleClient ELSE qClient[k]]
Touch(c) ==
    [k \in QClients |->
        IF k = c THEN IdleClient
        ELSE IF qClient[k].pc = "got" THEN [qClient[k] EXCEPT !.dirty = TRUE]
        ELSE qClient[k]]
TouchAll ==
    [k \in QClients |->
        IF qClient[k].pc = "got" THEN [qClient[k] EXCEPT !.dirty = TRUE] ELSE qClient[k]]

\* upsert_message / update_message: WATCH key, GET key (first attempt of a
\* call, or the attempt after a WatchError).
WatchGet(c, op, content) ==
    /\ \/ /\ qClient[c].pc = "idle"
          /\ Len(qHist.calls) < MaxUpserts
       \/ /\ qClient[c].pc = "retry"
          /\ op = qClient[c].op
          /\ content = qClient[c].content
    /\ qClient' = [qClient EXCEPT ![c] =
                     [pc |-> "got", op |-> op, raw |-> queue, content |-> content,
                      dirty |-> FALSE, attempts |-> qClient[c].attempts + 1]]
    /\ UNCHANGED <<logVars, streamVars, queue, qHist>>

\* upsert_message: MULTI / SET / EXEC with an unmodified key.
UpsertExec(c) ==
    /\ qClient[c].pc = "got" /\ qClient[c].op = "upsert"
    /\ ~qClient[c].dirty
    /\ queue' = UpsertData(qClient[c].raw, qClient[c].content, c)
    /\ qClient' = Touch(c)
    /\ qHist' = [qHist EXCEPT !.calls = Append(@, qClient[c].content)]
    /\ UNCHANGED <<logVars, streamVars>>

\* update_message: no entry -> UNWATCH, None; else MULTI / SET / EXEC with an
\* unmodified key.
UpdateExec(c) ==
    /\ qClient[c].pc = "got" /\ qClient[c].op = "update"
    /\ ~qClient[c].dirty
    /\ IF qClient[c].raw = NoQueue
       THEN /\ qClient' = [qClient EXCEPT ![c] = IdleClient]
            /\ UNCHANGED <<queue, qHist>>
       ELSE /\ queue' = UpdateData(qClient[c].raw, qClient[c].content)
            /\ qClient' = Touch(c)
            /\ qHist' = [qHist EXCEPT !.updated = TRUE]
    /\ UNCHANGED <<logVars, streamVars>>

UpsertAttempts == 5
RetryAllowed(attempts) == attempts < UpsertAttempts

\* EXEC after the key was modified: WatchError; tenacity retries while fewer
\* than UpsertAttempts attempts were made, then re-raises.
ExecConflict(c) ==
    /\ qClient[c].pc = "got"
    /\ qClient[c].dirty
    /\ qClient' = [qClient EXCEPT ![c] =
                     IF RetryAllowed(qClient[c].attempts)
                     THEN [@ EXCEPT !.pc = "retry", !.dirty = FALSE]
                     ELSE IdleClient]
    /\ UNCHANGED <<logVars, streamVars, queue, qHist>>

\* clear_queue (DEL).
ClearQueue ==
    /\ queue' = NoQueue
    /\ qClient' = IF queue = NoQueue THEN qClient ELSE TouchAll
    /\ qHist' = NoHist
    /\ UNCHANGED <<logVars, streamVars>>

\* pop_next_message (GETDEL) as called by the completing runtime.
PopNext ==
    /\ queue # NoQueue
    /\ queue' = PopNextMessage(queue)
    /\ qClient' = TouchAll
    /\ qHist' = NoHist
    /\ UNCHANGED <<logVars, streamVars>>

\* The TTL of the key runs out.
Expire ==
    /\ queue # NoQueue
    /\ queue' = NoQueue
    /\ qClient' = TouchAll
    /\ qHist' = NoHist
    /\ UNCHANGED <<logVars, streamVars>>


\* -------------------------------------------------------- Stream Runtime
InitRt ==
    [pc |-> "idle", sub |-> "none", msg |-> 0, event_count |-> 0,
     snap |-> <<>>, text_parts |-> <<>>, buffer |-> <<>>, batch |-> <<>>,
     last_seq |-> 0, wseq |-> 0, pending |-> 0, cancelled |-> FALSE,
     status |-> "none", agentLeft |-> MaxAgentEvents, cancels |-> 0,
     preset |-> FALSE, handoff |-> 0, prompt |-> <<>>, ran |-> FALSE,
     onHeld |-> FALSE, killed |-> "no"]
InitPoller == [pc |-> "off", batch |-> <<>>, left |-> MaxPolls]
IdlePerm == [pc |-> "idle", m |-> 0, s |-> 0, http |-> 0]

\* pcs at which the task of a runtime is suspended inside run()
RunPcs == {"emit_start", "snap_start", "loop", "flush_snap", "final_snap",
           "queue_pop", "queue_create", "queue_emit", "final_usage",
           "emit_terminal", "err_emit", "err_snap"}

\* The next await of the runtime is `stage`, reached through
\* _flush_event_buffer: with a non-empty buffer the batch write is issued
\* first (batch = self._event_buffer), else the stage's own write is issued.
EnterFlushThen(x, stage) ==
    IF Len(x.buffer) > 0
    THEN [x EXCEPT !.pc = stage, !.sub = "flushing", !.batch = x.buffer]
    ELSE [x EXCEPT !.pc = stage, !.sub = "write", !.wseq = x.last_seq]

\* start_background_chat: a task is created for the request.
StartBackgroundChat(r, m, prompt) ==
    [rt EXCEPT ![r] = [InitRt EXCEPT !.pc = "created", !.msg = m, !.prompt = prompt]]

IdleRuntimes == {r \in Runtimes : rt[r].pc = "idle"}
FirstIdle == CHOOSE r \in IdleRuntimes : \A k \in IdleRuntimes : r <= k

\* A new turn: the chat service creates the assistant message in_progress and
\* starts the background runtime for it.
StartTurn ==
    /\ IdleRuntimes # {}
    /\ \A k \in Runtimes : rt[k].pc \in {"idle", "done"}
    /\ msgCount = 0
    /\ queue = NoQueue \/ Cardinality(IdleRuntimes) >= 2
    /\ msgCount + (IF queue = NoQueue THEN 0 ELSE 1) < MaxMsgs
    /\ CreateMessage(msgCount + 1, "in_progress")
    /\ rt' = StartBackgroundChat(FirstIdle, msgCount + 1, <<"p">>)
    /\ UNCHANGED <<last_event_seq, log, tx, chatLock, removedRows, poller,
                   regEvent, evSet, pending, now, queue, perm, qVars>>

\* First step of the task: _bootstrap_and_execute awaits create_for_user.
TaskStart(r) ==
    /\ rt[r].pc = "created"
    /\ rt' = [rt EXCEPT ![r].pc = "boot", ![r].ran = TRUE]
    /\ UNCHANGED <<logVars, poller, regEvent, evSet, pending, now, queue, perm, qVars>>

\* create_for_user returned: execute_chat builds the runtime and registers
\* with the CancellationHandler (register), then awaits _connect_redis.
BootOk(r) ==
    /\ rt[r].pc = "boot"
    /\ LET deadline == PrunePending(pending, now)
       IN /\ evSet' = [evSet EXCEPT ![r] = RegisterPreset(deadline, now)]
          /\ rt' = [rt EXCEPT ![r].pc = "connect",
                              ![r].preset = RegisterPreset(deadline, now)]
    /\ pending' = NoPending
    /\ regEvent' = r
    /\ UNCHANGED <<logVars, poller, now, queue, perm, qVars>>

\* create_for_user raised: _mark_message_failed(FAILED), the task ends.
BootFail(r) ==
    /\ rt[r].pc = "boot"
    /\ messages' = [messages EXCEPT ![rt[r].msg] = MarkMessageFailed(@, "failed")]
    /\ rt' = [rt EXCEPT ![r].pc = "done"]
    /\ UNCHANGED <<last_event_seq, log, msgCount, tx, chatLock, removedRows, poller,
                   regEvent, evSet, pending, now, queue, perm, qVars>>

\* _connect_redis returned: the cancel event is attached, the agent stream
\* and the context-usage poller are created, run() starts and issues the
\* append of stream_started.
Connect(r) ==
    /\ rt[r].pc = "connect"
    /\ rt' = [rt EXCEPT ![r] = EnterFlushThen(@, "emit_start")]
    /\ poller' = [poller EXCEPT ![r].pc = "idle"]
    /\ UNCHANGED <<logVars, regEvent, evSet, pending, now, queue, perm, qVars>>

\* _flush_event_buffer after its await: the batch is in the log,
\* self._event_buffer = [], self.last_seq = seq.
FlushEnd(r) ==
    /\ rt[r].pc \in RunPcs
    /\ rt[r].sub = "flushing"
    /\ log' = log \o AppendedRows(last_event_seq, rt[r].msg, r, rt[r].batch, "agent")
    /\ last_event_seq' = last_event_seq + Len(rt[r].batch)
    /\ rt' = [rt EXCEPT ![r].sub = "write", ![r].buffer = <<>>, ![r].batch = <<>>,
                        ![r].last_seq = last_event_seq + Len(rt[r].batch),
                        ![r].wseq = last_event_seq + Len(rt[r].batch)]
    /\ UNCHANGED <<messages, msgCount, tx, chatLock, removedRows, poller,
                   regEvent, evSet, pending, now, queue, perm, qVars>>

\* Where the task is suspended next once the control event it emitted is in
\* the log: run() writes the first snapshot directly, _complete_stream
\* returns after the terminal event, the other callers go on to a stage that
\* starts with _flush_event_buffer.
AfterEmit(x, stage) ==
    IF stage = "exit" THEN [x EXCEPT !.pc = "exit", !.sub = "none"]
    ELSE IF stage = "snap_start"
         THEN [x EXCEPT !.pc = "snap_start", !.sub = "write", !.wseq = x.last_seq]
         ELSE EnterFlushThen(x, stage)

\* emit_event of a control event, after the buffer flush: the append of one
\* row; self.last_seq = seq.
EmitControl(r, kind, src, stage) ==
    /\ log' = log \o AppendedRows(last_event_seq, rt[r].msg, r, <<Item(kind, <<>>)>>, src)
    /\ last_event_seq' = last_event_seq + 1
    /\ rt' = [rt EXCEPT ![r] = AfterEmit([@ EXCEPT !.last_seq = last_event_seq + 1], stage)]
    /\ UNCHANGED <<messages, msgCount, tx, chatLock, removedRows, poller,
                   regEvent, evSet, pending, now, queue, perm, qVars>>

\* run(): stream_started is in the log; the first snapshot write is issued
\* with last_seq = start_seq.
EmitStart(r) ==
    /\ rt[r].pc = "emit_start" /\ rt[r].sub = "write"
    /\ EmitControl(r, "stream_started", "runtime", "snap_start")

\* run(): update_message_snapshot(content_text "", active_stream_id = stream).
SnapStart(r) ==
    /\ rt[r].pc = "snap_start"
    /\ messages' = [messages EXCEPT ![rt[r].msg] =
                      UpdateMessageSnapshot(@, <<>>, rt[r].snap, rt[r].wseq, r, "keep")]
    /\ rt' = [rt EXCEPT ![r].pc = "loop", ![r].sub = "none"]
    /\ UNCHANGED <<last_event_seq, log, msgCount, tx, chatLock, removedRows, poller,
                   regEvent, evSet, pending, now, queue, perm, qVars>>

\* _next_or_cancel with the cancel event set: _cancelled, the agent call is
\* cancelled (cancel_stream), the loop breaks and run() goes to
\* _complete_stream(INTERRUPTED), whose first write is the final snapshot.
LoopCancel(r) ==
    /\ rt[r].pc = "loop"
    /\ evSet[r]
    /\ rt' = [rt EXCEPT ![r] =
                EnterFlushThen([@ EXCEPT !.cancelled = TRUE,
                                         !.cancels = @ + 1,
                                         !.status = RunOutcome(TRUE, rt[r].event_count)],
                               "final_snap")]
    /\ UNCHANGED <<logVars, poller, regEvent, evSet, pending, now, queue, perm, qVars>>

\* _next_or_cancel returned an agent event of a snapshot kind: emit_event
\* buffers it and applies it to the snapshot; _flush_snapshot(force=False)
\* flushes when due.
LoopEvent(r, kind, text, elapsed) ==
    /\ rt[r].pc = "loop"
    /\ ~evSet[r]
    /\ rt[r].agentLeft > 0
    /\ kind \in SNAPSHOT_EVENT_KINDS
    /\ LET x == [rt[r] EXCEPT !.agentLeft = @ - 1,
                              !.event_count = @ + 1,
                              !.buffer = Append(@, Item(kind, text)),
                              !.snap = Append(@, Item(kind, text)),
                              !.text_parts = AddTextPart(@, kind, text),
                              !.pending = @ + 1]
       IN rt' = [rt EXCEPT ![r] =
                   IF FlushDue(x.pending, elapsed)
                   THEN EnterFlushThen(x, "flush_snap") ELSE x]
    /\ UNCHANGED <<logVars, poller, regEvent, evSet, pending, now, queue, perm, qVars>>

\* The agent stream ended (StopAsyncIteration): run() raises when no event was
\* seen (handled by its error handler), else completes.
LoopEnd(r) ==
    /\ rt[r].pc = "loop"
    /\ ~evSet[r]
    /\ LET st == RunOutcome(FALSE, rt[r].event_count)
       IN rt' = [rt EXCEPT ![r] =
                   EnterFlushThen([@ EXCEPT !.status = st],
                                  IF st = "failed" THEN "err_emit" ELSE "final_snap")]
    /\ UNCHANGED <<logVars, poller, regEvent, evSet, pending, now, queue, perm, qVars>>

\* The agent stream raised: the error handler of run() emits the error event.
LoopError(r) ==
    /\ rt[r].pc = "loop"
    /\ ~evSet[r]
    /\ rt' = [rt EXCEPT ![r] = EnterFlushThen([@ EXCEPT !.status = "failed"], "err_emit")]
    /\ UNCHANGED <<logVars, poller, regEvent, evSet, pending, now, queue, perm, qVars>>

\* _flush_snapshot after the buffer flush: the snapshot write, then
\* pending_since_flush = 0.
FlushSnapWrite(r) ==
    /\ rt[r].pc = "flush_snap" /\ rt[r].sub = "write"
    /\ messages' = [messages EXCEPT ![rt[r].msg] =
                      UpdateMessageSnapshot(@, ContentText(rt[r].text_parts), rt[r].snap,
                                            rt[r].wseq, r, "keep")]
    /\ rt' = [rt EXCEPT ![r].pc = "loop", ![r].sub = "none", ![r].pending = 0]
    /\ UNCHANGED <<last_event_seq, log, msgCount, tx, chatLock, removedRows, poller,
                   regEvent, evSet, pending, now, queue, perm, qVars>>

\* _save_final_snapshot after the buffer flush: the terminal snapshot write
\* (active_stream_id None); _complete_stream then goes to the checkpoint and
\* the queue (COMPLETED) or to the final context usage.
FinalSnapWrite(r) ==
    /\ rt[r].pc = "final_snap" /\ rt[r].sub = "write"
    /\ messages' = [messages EXCEPT ![rt[r].msg] =
                      UpdateMessageSnapshot(@, ContentText(rt[r].text_parts), rt[r].snap,
                                            rt[r].wseq, 0, rt[r].status)]
    /\ rt' = [rt EXCEPT ![r].pc = IF rt[r].status = "completed"
                                  THEN "queue_pop" ELSE "final_usage",
                        ![r].sub = "none"]
    /\ UNCHANGED <<last_event_seq, log, msgCount, tx, chatLock, removedRows, poller,
                   regEvent, evSet, pending, now, queue, perm, qVars>>

\* _process_next_queued: pop_next_message (GETDEL). An empty queue sends
\* _complete_stream to the final context usage and the complete event.
QueuePop(r) ==
    /\ rt[r].pc = "queue_pop"
    /\ IF queue = NoQueue
       THEN /\ rt' = [rt EXCEPT ![r].pc = "final_usage"]
            /\ UNCHANGED <<queue, qHist>>
       ELSE /\ rt' = [rt EXCEPT ![r].pc = "queue_create", ![r].prompt = queue.content]
            /\ queue' = PopNextMessage(queue)
            /\ qHist' = NoHist
    /\ UNCHANGED <<logVars, poller, regEvent, evSet, pending, now, perm, qClient>>

\* _process_next_queued: the user and assistant rows of the follow-up are
\* created (the assistant row in_progress); queue_processing is issued.
QueueCreate(r) ==
    /\ rt[r].pc = "queue_create"
    /\ CreateMessage(msgCount + 1, "in_progress")
    /\ rt' = [rt EXCEPT ![r] = EnterFlushThen([@ EXCEPT !.handoff = msgCount + 1],
                                              "queue_emit")]
    /\ UNCHANGED <<last_event_seq, log, tx, chatLock, removedRows, poller,
                   regEvent, evSet, pending, now, queue, perm, qVars>>

\* _process_next_queued: queue_processing is in the log (on the stream of the
\* finished message); start_background_chat starts the follow-up runtime with
\* the popped content as prompt; run() returns without a complete event.
QueueEmit(r) ==
    /\ rt[r].pc = "queue_emit" /\ rt[r].sub = "write"
    /\ IdleRuntimes # {}
    /\ log' = log \o AppendedRows(last_event_seq, rt[r].msg, r,
                                  <<Item("queue_processing", <<>>)>>, "runtime")
    /\ last_event_seq' = last_event_seq + 1
    /\ rt' = [StartBackgroundChat(FirstIdle, rt[r].handoff, rt[r].prompt)
                EXCEPT ![r].pc = "exit", ![r].sub = "none",
                       ![r].last_seq = last_event_seq + 1,
                       ![FirstIdle].agentLeft = MaxFollowUpEvents]
    /\ UNCHANGED <<messages, msgCount, tx, chatLock, removedRows, poller,
                   regEvent, evSet, pending, now, queue, perm, qVars>>

\* _process_next_queued: create_message raises after pop_next_message; except
\* Exception logs and returns False, and _complete_stream goes on to the
\* final context usage and the complete event.
QueueCreateFails(r) ==
    /\ rt[r].pc = "queue_create"
    /\ rt' = [rt EXCEPT ![r].pc = "final_usage"]
    /\ UNCHANGED <<logVars, poller, regEvent, evSet, pending, now, queue, perm, qVars>>

\* _process_next_queued: a statement after the creation of the follow-up's
\* rows raises: the append of queue_processing (emitted = FALSE), or
\* get_user_settings, build_system_prompt_for_chat or start_background_chat
\* after it (emitted = TRUE). except Exception logs and returns False; no
\* runtime is started.
QueueHandoffFails(r, emitted) ==
    /\ rt[r].pc = "queue_emit" /\ rt[r].sub = "write"
    /\ IF emitted
       THEN /\ log' = log \o AppendedRows(last_event_seq, rt[r].msg, r,
                                          <<Item("queue_processing", <<>>)>>, "runtime")
            /\ last_event_seq' = last_event_seq + 1
            /\ rt' = [rt EXCEPT ![r].pc = "final_usage", ![r].sub = "none",
                                ![r].last_seq = last_event_seq + 1]
       ELSE /\ rt' = [rt EXCEPT ![r].pc = "final_usage", ![r].sub = "none"]
            /\ UNCHANGED <<log, last_event_seq>>
    /\ UNCHANGED <<messages, msgCount, tx, chatLock, removedRows, poller,
                   regEvent, evSet, pending, now, queue, perm, qVars>>

\* _emit_final_context_usage: ContextUsagePoller.refresh emits a system event
\* with apply_snapshot=False when usage is available (emit), then the
\* terminal control event is issued.
FinalUsage(r, emit) ==
    /\ rt[r].pc = "final_usage"
    /\ IF emit
       THEN EmitControl(r, "system", "usage", "emit_terminal")
       ELSE /\ rt' = [rt EXCEPT ![r] = EnterFlushThen(@, "emit_terminal")]
            /\ UNCHANGED <<logVars, poller, regEvent, evSet, pending, now, queue, perm, qVars>>

\* _complete_stream: the terminal control event is in the log; run() returns.
EmitTerminal(r) ==
    /\ rt[r].pc = "emit_terminal" /\ rt[r].sub = "write"
    /\ EmitControl(r, TerminalKind(rt[r].status), "runtime", "exit")

\* The append of the terminal control event raises (the database refuses the
\* statement): nothing is appended, the error handler of run() takes over.
EmitTerminalFails(r) ==
    /\ rt[r].pc = "emit_terminal" /\ rt[r].sub = "write"
    /\ rt' = [rt EXCEPT ![r] = EnterFlushThen([@ EXCEPT !.status = "failed"], "err_emit")]
    /\ UNCHANGED <<logVars, poller, regEvent, evSet, pending, now, queue, perm, qVars>>

\* Error handler of run(): the error event is in the log;
\* _save_final_snapshot(FAILED) is issued.
ErrEmit(r) ==
    /\ rt[r].pc = "err_emit" /\ rt[r].sub = "write"
    /\ EmitControl(r, "error", "runtime", "err_snap")

\* Error handler of run(): the FAILED snapshot is written whatever the
\* message's status is; the exception is re-raised.
ErrSnap(r) ==
    /\ rt[r].pc = "err_snap" /\ rt[r].sub = "write"
    /\ messages' = [messages EXCEPT ![rt[r].msg] =
                      UpdateMessageSnapshot(@, ContentText(rt[r].text_parts), rt[r].snap,
                                            rt[r].wseq, 0, "failed")]
    /\ rt' = [rt EXCEPT ![r].pc = "exit", ![r].sub = "none"]
    /\ UNCHANGED <<last_event_seq, log, msgCount, tx, chatLock, removedRows, poller,
                   regEvent, evSet, pending, now, queue, perm, qVars>>

\* execute_chat, finally: the poller is stopped, the cancel event is
\* unregistered, the task ends.
Exit(r) ==
    /\ rt[r].pc = "exit"
    /\ rt' = [rt EXCEPT ![r].pc = "done"]
    /\ poller' = [poller EXCEPT ![r].pc = "stopped", ![r].batch = <<>>]
    /\ regEvent' = UnregisterEvent(regEvent, r)
    /\ pending' = UnregisterPending(pending)
    /\ UNCHANGED <<logVars, evSet, now, queue, perm, qVars>>

\* ------------------------------------------------- Context-usage poller
\* ContextUsagePoller._poll -> refresh -> rt.emit_event("system", ...,
\* apply_snapshot=False): the poller task enters _flush_event_buffer of the
\* runtime it belongs to.
PollEmit(r) ==
    /\ rt[r].pc \in RunPcs
    /\ poller[r].pc = "idle"
    /\ poller[r].left > 0
    /\ poller' = [poller EXCEPT ![r] =
                    IF Len(rt[r].buffer) > 0
                    THEN [@ EXCEPT !.pc = "flushing", !.batch = rt[r].buffer, !.left = @ - 1]
                    ELSE [@ EXCEPT !.pc = "write", !.left = @ - 1]]
    /\ UNCHANGED <<logVars, rt, regEvent, evSet, pending, now, queue, perm, qVars>>

\* The poller's batch write returned: self._event_buffer = [] on the runtime
\* (whatever it holds by now), self.last_seq = seq.
PollFlushEnd(r) ==
    /\ rt[r].pc \in RunPcs
    /\ poller[r].pc = "flushing"
    /\ log' = log \o AppendedRows(last_event_seq, rt[r].msg, r, poller[r].batch, "agent")
    /\ last_event_seq' = last_event_seq + Len(poller[r].batch)
    /\ rt' = [rt EXCEPT ![r].buffer = <<>>,
                        ![r].last_seq = last_event_seq + Len(poller[r].batch)]
    /\ poller' = [poller EXCEPT ![r].pc = "write", ![r].batch = <<>>]
    /\ UNCHANGED <<messages, msgCount, tx, chatLock, removedRows,
                   regEvent, evSet, pending, now, queue, perm, qVars>>

\* The poller's system event is in the log; self.last_seq = seq.
PollWrite(r) ==
    /\ rt[r].pc \in RunPcs
    /\ poller[r].pc = "write"
    /\ log' = log \o AppendedRows(last_event_seq, rt[r].msg, r,
                                  <<Item("system", <<>>)>>, "poller")
    /\ last_event_seq' = last_event_seq + 1
    /\ rt' = [rt EXCEPT ![r].last_seq = last_event_seq + 1]
    /\ poller' = [poller EXCEPT ![r].pc = "idle"]
    /\ UNCHANGED <<messages, msgCount, tx, chatLock, removedRows,
                   regEvent, evSet, pending, now, queue, perm, qVars>>

\* -------------------------------------------------- Permission endpoint
LatestAssistantMessage == msgCount

\* create_permission_request: get_latest_assistant_message; a message with an
\* active stream gets the permission_request event.
PermRead ==
    /\ perm.pc = "idle"
    /\ msgCount > 0
    /\ perm' = IF messages[LatestAssistantMessage].active_stream_id # 0
               THEN [IdlePerm EXCEPT !.pc = "append", !.m = LatestAssistantMessage,
                                     !.s = messages[LatestAssistantMessage].active_stream_id]
               ELSE [IdlePerm EXCEPT !.pc = "done"]
    /\ UNCHANGED <<logVars, rt, poller, regEvent, evSet, pending, now, queue, qVars>>

\* create_permission_request: append_event_with_next_seq of the
\* permission_request event; the snapshot is not touched.
PermAppend ==
    /\ perm.pc = "append"
    /\ log' = log \o AppendedRows(last_event_seq, perm.m, perm.s,
                                  <<Item("permission_request", <<>>)>>, "perm")
    /\ last_event_seq' = last_event_seq + 1
    /\ perm' = [IdlePerm EXCEPT !.pc = "done"]
    /\ UNCHANGED <<messages, msgCount, tx, chatLock, removedRows, rt, poller,
                   regEvent, evSet, pending, now, queue, qVars>>

\* The permission_request row of the endpoint is in the log.
PermAppended == \E i \in 1..Len(log) : log[i].src = "perm"

\* create_permission_request after the append: redis.publish of the envelope
\* on the chat's live channel, inside the try block of the endpoint. A publish
\* that raises is caught by `except Exception`: the request key is deleted and
\* HTTP 500 is raised; else the endpoint returns the request id (200). With
\* no active stream nothing is appended or published.
PermPublish(ok) ==
    /\ perm.pc = "done"
    /\ ok \/ PermAppended
    /\ perm' = [perm EXCEPT !.pc = "returned", !.http = IF ok THEN 200 ELSE 500]
    /\ UNCHANGED <<logVars, rt, poller, regEvent, evSet, pending, now, queue, qVars>>

\* ------------------------------------------------ Cancellation requests
\* request_cancel: the live event is set when a runtime is registered, else
\* a pending flag with deadline now + CancelTtl is recorded.
RequestCancel ==
    /\ IF regEvent # 0
       THEN /\ evSet' = [evSet EXCEPT ![regEvent] = TRUE]
            /\ pending' = PrunePending(pending, now)
       ELSE /\ pending' = now + CancelTtl
            /\ evSet' = evSet
    /\ UNCHANGED <<logVars, rt, poller, regEvent, now, queue, perm, qVars>>

\* Time passes.
Tick ==
    /\ now < MaxTime
    /\ pending # NoPending
    /\ now' = now + 1
    /\ UNCHANGED <<logVars, rt, poller, regEvent, evSet, pending, queue, perm, qVars>>

\* The runtime whose stream is active for the chat (from start_background_chat
\* until its unregister), 0 when there is none; with two, the later one.
ActiveStreams == {r \in Runtimes : rt[r].pc \notin {"idle", "done"}}
ActiveStream ==
    IF ActiveStreams = {} THEN 0
    ELSE CHOOSE r \in ActiveStreams : \A k \in ActiveStreams : rt[k].msg <= rt[r].msg

HandingOff == {r \in Runtimes : rt[r].pc \in {"queue_create", "queue_emit"}}

\* POST /chats/{id}/queue with no concurrent writer of the key: one
\* WATCH/GET/EXEC round.
QueueUpsert(content) ==
    /\ Len(queue.content) < 2 * MaxUpserts - 1
    /\ Cardinality(IdleRuntimes) > Cardinality(HandingOff)
    /\ msgCount + Cardinality({r \in Runtimes : rt[r].pc = "queue_create"}) < MaxMsgs
    /\ queue' = UpsertData(queue, content, 1)
    /\ qHist' = [qHist EXCEPT !.during = ActiveStream]
    /\ UNCHANGED <<logVars, rt, poller, regEvent, evSet, pending, now, perm, qClient>>


\* ------------------------------------------------------ Task cancellation
\* `killed` of a runtime records task.cancel(): the stream_status its message
\* had when the cancellation was requested ("no" while none was).
\* task.cancel() on a task that has not run its first step: the coroutine
\* body never runs, nothing is written.
TaskCancelUnstarted(r) ==
    /\ rt[r].pc = "created"
    /\ rt' = [rt EXCEPT ![r].pc = "done", ![r].killed = messages[rt[r].msg].status]
    /\ UNCHANGED <<logVars, poller, regEvent, evSet, pending, now, queue, perm, qVars>>

\* task.cancel() while _bootstrap_and_execute awaits create_for_user:
\* except CancelledError -> _mark_message_failed(INTERRUPTED).
TaskCancelBoot(r) ==
    /\ rt[r].pc = "boot"
    /\ messages' = [messages EXCEPT ![rt[r].msg] = MarkMessageFailed(@, "interrupted")]
    /\ rt' = [rt EXCEPT ![r].pc = "done", ![r].killed = messages[rt[r].msg].status]
    /\ UNCHANGED <<last_event_seq, log, msgCount, tx, chatLock, removedRows, poller,
                   regEvent, evSet, pending, now, queue, perm, qVars>>

\* task.cancel() while execute_chat is suspended: the statement in flight is
\* abandoned, the poller is stopped, the handler for CancelledError starts.
TaskCancel(r) ==
    /\ rt[r].pc \in RunPcs \cup {"connect", "exit"}
    /\ rt' = [rt EXCEPT ![r].pc = "cancelling", ![r].sub = "none",
                        ![r].killed = messages[rt[r].msg].status]
    /\ poller' = [poller EXCEPT ![r].pc = "stopped", ![r].batch = <<>>]
    /\ UNCHANGED <<logVars, regEvent, evSet, pending, now, queue, perm, qVars>>

\* task.cancel() while _next_or_cancel, with the agent event at hand, awaits
\* the wait task it has just cancelled: Task.cancel() is passed on to that
\* task, the CancelledError that comes back is taken by
\* suppress(CancelledError) and the event is returned; the loop goes on as if
\* no cancellation had been requested.
TaskCancelSwallowed(r, kind, text, elapsed) ==
    /\ rt[r].pc = "loop"
    /\ ~evSet[r]
    /\ rt[r].agentLeft > 0
    /\ rt[r].killed = "no"
    /\ kind \in SNAPSHOT_EVENT_KINDS
    /\ LET x == [rt[r] EXCEPT !.agentLeft = @ - 1,
                              !.event_count = @ + 1,
                              !.buffer = Append(@, Item(kind, text)),
                              !.snap = Append(@, Item(kind, text)),
                              !.text_parts = AddTextPart(@, kind, text),
                              !.pending = @ + 1,
                              !.killed = messages[rt[r].msg].status]
       IN rt' = [rt EXCEPT ![r] =
                   IF FlushDue(x.pending, elapsed)
                   THEN EnterFlushThen(x, "flush_snap") ELSE x]
    /\ UNCHANGED <<logVars, poller, regEvent, evSet, pending, now, queue, perm, qVars>>

\* execute_chat, except CancelledError: _mark_message_failed(INTERRUPTED),
\* then finally: unregister.
CancelMark(r) ==
    /\ rt[r].pc = "cancelling"
    /\ messages' = [messages EXCEPT ![rt[r].msg] = MarkMessageFailed(@, "interrupted")]
    /\ rt' = [rt EXCEPT ![r].pc = "done"]
    /\ regEvent' = UnregisterEvent(regEvent, r)
    /\ pending' = UnregisterPending(pending)
    /\ UNCHANGED <<last_event_seq, log, msgCount, tx, chatLock, removedRows, poller,
                   evSet, now, queue, perm, qVars>>

\* start_background_chat with the id of an assistant message that a running
\* stream holds (active_stream_id set by that stream).
StartOnHeld(m) ==
    /\ IdleRuntimes # {}
    /\ messages[m].exists
    /\ messages[m].active_stream_id # 0
    /\ rt' = [StartBackgroundChat(FirstIdle, m, <<"p">>)
                EXCEPT ![FirstIdle].onHeld = TRUE,
                       ![FirstIdle].agentLeft = MaxDupEvents]
    /\ UNCHANGED <<logVars, poller, regEvent, evSet, pending, now, queue, perm, qVars>>


\* ------------------------------------------------------- specifications
\* --------------------------------------------------------------- Scheduler
\* ScheduledTask.next_execution is nullable.
NoTime == -1
NoTask == [status |-> "none", next_execution |-> NoTime, recurrence_type |-> "daily"]
DeletedTask == [NoTask EXCEPT !.status = "deleted"]
NoExecution ==
    [status |-> "none", task_id |-> 0, executed_at |-> NoTime,
     completed_at |-> NoTime, due |-> NoTime]
IdleChecker == [pc |-> "idle", now |-> 0, claimed |-> <<>>, stale |-> {}]
NoJob == [pc |-> "none", sent |-> 0]

\* _next_run_utc: the next occurrence of the task's scheduled time strictly
\* after from_time (the scheduled time is the start of a day); a once task
\* has no next run unless allow_once.
NextRunUtc(recurrence_type, from_time, allow_once) ==
    IF recurrence_type = "once" /\ ~allow_once
    THEN NoTime
    ELSE ((from_time \div Period) + 1) * Period

\* ------------------------------------------------ Next run of a schedule
\* Instants are counted in slots from midnight UTC of 1 January FirstYear;
\* a day has Slots slots and a time of day (scheduled_time after
\* _parse_time, or the clock time of an instant) is a slot of the day.
Slots == MaxTod + 1
NoDay == -1

\* calendar.monthrange(year, month)[1]
IsLeap(year) == (year % 4 = 0 /\ year % 100 # 0) \/ year % 400 = 0
MonthRange(year, month) ==
    IF month = 2 THEN (IF IsLeap(year) THEN 29 ELSE 28)
    ELSE IF month \in {4, 6, 9, 11} THEN 30 ELSE 31

\* date.toordinal(): days before the year, days before the month, the day.
DaysBeforeYear(year) ==
    (year - 1) * 365 + ((year - 1) \div 4) - ((year - 1) \div 100) + ((year - 1) \div 400)
RECURSIVE DaysBeforeMonth(_, _)
DaysBeforeMonth(year, month) ==
    IF month = 1 THEN 0
    ELSE DaysBeforeMonth(year, month - 1) + MonthRange(year, month - 1)
ToOrdinal(year, month, day) == DaysBeforeYear(year) + DaysBeforeMonth(year, month) + day

\* The day number of a date within the calendar (1 January FirstYear is 0).
DayNumber(year, month, day) == ToOrdinal(year, month, day) - ToOrdinal(FirstYear, 1, 1)

\* The date of day number n, counted on from the first of `month`.
RECURSIVE DateFrom(_, _, _)
DateFrom(year, month, n) ==
    IF n < MonthRange(year, month)
    THEN [year |-> year, month |-> month, day |-> n + 1]
    ELSE DateFrom(IF month = 12 THEN year + 1 ELSE year,
                  IF month = 12 THEN 1 ELSE month + 1,
                  n - MonthRange(year, month))
DateOfDay(n) == DateFrom(FirstYear, 1, n)

\* date.weekday(): Monday is 0.
Weekday(d) == (ToOrdinal(d.year, d.month, d.day) + 6) % 7

\* datetime(year, month, day, hour, minute, second, tzinfo) as a local slot
\* count, and the comparison and timedelta arithmetic on it.
LocalAt(year, month, day, tod) == DayNumber(year, month, day) * Slots + tod

\* A time zone (ZoneInfo): a UTC offset `base`, in slots, and for a zone with
\* daylight saving one transition, at the UTC instant `at`, from which on the
\* offset is base + shift.
FixedZone(offset) == [base |-> offset, at |-> 0, shift |-> 0]
DstAt == DstDay * Slots + 1
SpringZone == [base |-> 0, at |-> DstAt, shift |-> 1]
FallZone == [base |-> 1, at |-> DstAt, shift |-> -1]
Zones == {FixedZone(o) : o \in 0..MaxOffset} \cup {SpringZone, FallZone}

\* No call of _next_run_utc made yet.
IdleCalc == [pc |-> "idle", recurrence_type |-> "none", scheduled_time |-> 0,
             scheduled_day |-> NoDay, from_time |-> 0, tz |-> FixedZone(0),
             allow_once |-> FALSE, kind |-> "none", result |-> 0]

\* astimezone(tz) of a UTC instant: the wall clock of the zone, with fold = 1
\* for the second occurrence of a wall time the zone has twice.
OffsetAt(t, tz) == IF tz.shift # 0 /\ t >= tz.at THEN tz.base + tz.shift ELSE tz.base
ToLocal(t, tz) ==
    [w |-> t + OffsetAt(t, tz),
     fold |-> IF tz.shift < 0 /\ t >= tz.at /\ t + tz.shift < tz.at THEN 1 ELSE 0]

\* astimezone(timezone.utc) of a wall time of the zone: the offset in force at
\* that wall time; for a wall time the zone has twice or never, the offset
\* before the transition when fold = 0 and the one after it when fold = 1.
ToUtc(local, tz) ==
    LET before == local.w - tz.base
        after == local.w - (tz.base + tz.shift)
    IN IF tz.shift = 0 THEN before
       ELSE IF before < tz.at /\ ~(after >= tz.at) THEN before
       ELSE IF after >= tz.at /\ ~(before < tz.at) THEN after
       ELSE IF local.fold = 0 THEN before ELSE after

MinDay(a, b) == IF a <= b THEN a ELSE b

\* _next_run_utc on valid arguments: the local target of this day, week or
\* month when its wall time lies after that of local_now, else the next one
\* (replace keeps the fold of local_now; a datetime built or added to has
\* fold 0).
NextLocal(recurrence_type, scheduled_time, scheduled_day, local_now) ==
    LET today == local_now.w \div Slots
        d == DateOfDay(today)
    IN IF recurrence_type \in {"once", "daily"}
       THEN LET target == today * Slots + scheduled_time
            IN IF target > local_now.w
               THEN [w |-> target, fold |-> local_now.fold]
               ELSE [w |-> target + Slots, fold |-> 0]
       ELSE IF recurrence_type = "weekly"
       THEN LET days_ahead == (scheduled_day - Weekday(d)) % 7
                target == (today + days_ahead) * Slots + scheduled_time
            IN [w |-> IF target > local_now.w THEN target ELSE target + 7 * Slots,
                fold |-> 0]
       ELSE LET target == LocalAt(d.year, d.month,
                                  MinDay(scheduled_day, MonthRange(d.year, d.month)),
                                  scheduled_time)
                year == IF d.month = 12 THEN d.year + 1 ELSE d.year
                month == IF d.month = 12 THEN 1 ELSE d.month + 1
            IN [w |-> IF target > local_now.w THEN target
                      ELSE LocalAt(year, month,
                                   MinDay(scheduled_day, MonthRange(year, month)),
                                   scheduled_time),
                fold |-> 0]

\* _next_run_utc: None for a once task unless allow_once, SchedulerException
\* for a weekly or monthly task without a valid scheduled_day, else the next
\* local target converted to UTC.
NextRunKind(recurrence_type, scheduled_day, allow_once) ==
    IF recurrence_type = "once" THEN (IF allow_once THEN "at" ELSE "none")
    ELSE IF recurrence_type = "daily" THEN "at"
    ELSE IF recurrence_type = "weekly"
    THEN (IF scheduled_day = NoDay \/ scheduled_day < 0 \/ scheduled_day > 6
          THEN "error" ELSE "at")
    ELSE (IF scheduled_day = NoDay \/ scheduled_day < 1 \/ scheduled_day > 31
          THEN "error" ELSE "at")

\* The arguments a caller passes: weekly and monthly tasks with any
\* scheduled_day the column can hold, the others with none.
AllRecurrences == {"once", "daily", "weekly", "monthly"}
ScheduledDaysOf(recurrence_type) ==
    IF recurrence_type = "weekly" THEN {NoDay} \cup (0..7)
    ELSE IF recurrence_type = "monthly" THEN {NoDay, 0, 1, 15, 28, 29, 30, 31, 32}
    ELSE {NoDay}

\* One call of _next_run_utc.
NextRunCall(recurrence_type, scheduled_time, scheduled_day, from_time, tz, allow_once) ==
    /\ calc.pc = "idle"
    /\ LET kind == NextRunKind(recurrence_type, scheduled_day, allow_once)
       IN calc' = [pc |-> "returned", recurrence_type |-> recurrence_type,
                   scheduled_time |-> scheduled_time, scheduled_day |-> scheduled_day,
                   from_time |-> from_time, tz |-> tz, allow_once |-> allow_once,
                   kind |-> kind,
                   result |-> IF kind = "at"
                              THEN ToUtc(NextLocal(recurrence_type, scheduled_time,
                                                   scheduled_day, ToLocal(from_time, tz)), tz)
                              ELSE 0]
    /\ UNCHANGED <<runner, cowait>>

\* create_task: the row starts active with its first run computed. Its id
\* is a fresh UUID.
CreateTask(t, recurrence_type) ==
    /\ tasks[t].status = "none"
    /\ tasks' = [tasks EXCEPT ![t] =
                   [status |-> "active",
                    next_execution |-> NextRunUtc(recurrence_type, clock, TRUE),
                    recurrence_type |-> recurrence_type]]
    /\ UNCHANGED <<clock, executions, checker, jobs>>

\* delete_task: the row goes, and its TaskExecution rows with it (ON DELETE
\* CASCADE). The DELETE waits for a row lock held by a claiming transaction.
RowLocks == UNION {{checker[c].claimed[i].task_id : i \in 1..Len(checker[c].claimed)} :
                   c \in {k \in SchedCallers : checker[k].pc = "claiming"}}
DeleteTask(t) ==
    /\ tasks[t].status \notin {"none", "deleted"}
    /\ t \notin RowLocks
    /\ tasks' = [tasks EXCEPT ![t] = DeletedTask]
    /\ executions' = [e \in ExecIds |->
                        IF executions[e].task_id = t THEN NoExecution
                        ELSE executions[e]]
    /\ UNCHANGED <<clock, checker, jobs>>

\* _activate_task: the status becomes active; the next run is computed from
\* the current time when asked for or when there is none.
ActivateTask(task, at, recalc_next) ==
    [task EXCEPT !.status = "active",
                 !.next_execution =
                     IF recalc_next \/ task.next_execution = NoTime
                     THEN NextRunUtc(task.recurrence_type, at, TRUE)
                     ELSE task.next_execution]

\* toggle_task: an active task is paused, a task in any other status is
\* activated with its next run recomputed. The row is read without a lock;
\* the UPDATE of the commit waits for a row lock held by a claiming
\* transaction. Read and write are one step here.
ToggleTask(t) ==
    /\ tasks[t].status \notin {"none", "deleted"}
    /\ t \notin RowLocks
    /\ tasks' = [tasks EXCEPT ![t] =
                   IF tasks[t].status = "active"
                   THEN [tasks[t] EXCEPT !.status = "paused"]
                   ELSE ActivateTask(tasks[t], clock, TRUE)]
    /\ UNCHANGED <<clock, executions, checker, jobs>>

\* update_task: every field of the update is set on the row (status is
\* "same" when the update has none; recalc_next when it has a schedule
\* field, which recomputes the next run); a status that changed to active
\* goes through _activate_task. Read and write are one step here.
UpdateTask(t, status, recalc_next) ==
    /\ tasks[t].status \notin {"none", "deleted"}
    /\ t \notin RowLocks
    /\ LET old_status == tasks[t].status
           set == [tasks[t] EXCEPT
                     !.status = IF status = "same" THEN old_status ELSE status,
                     !.next_execution =
                         IF recalc_next
                         THEN NextRunUtc(tasks[t].recurrence_type, clock, TRUE)
                         ELSE tasks[t].next_execution]
       IN tasks' = [tasks EXCEPT ![t] =
                      IF set.status = "active" /\ old_status # "active"
                      THEN ActivateTask(set, clock, recalc_next)
                      ELSE set]
    /\ UNCHANGED <<clock, executions, checker, jobs>>

ClockTick ==
    /\ clock < MaxClock
    /\ clock' = clock + 1
    /\ UNCHANGED <<tasks, executions, checker, jobs>>

\* Rows the SELECT ... FOR UPDATE SKIP LOCKED may return: those no other
\* transaction holds a lock on.
SkipLockedIgnored(c, t) == TRUE
SkipLocked(c, t) == t \notin RowLocks

DueTasks(c, at) ==
    {t \in SchedTasks : /\ tasks[t].status = "active"
                        /\ tasks[t].next_execution # NoTime
                        /\ tasks[t].next_execution <= at
                        /\ SkipLocked(c, t)}

\* ids of TaskExecution rows, committed or pending in a transaction.
UsedExecIds ==
    {e \in ExecIds : executions[e].status # "none" \/ jobs[e].pc # "none"}
      \cup UNION {{checker[c].claimed[i].id : i \in 1..Len(checker[c].claimed)} :
                  c \in SchedCallers}

ClaimedTask(c, t) ==
    \E i \in 1..Len(checker[c].claimed) : checker[c].claimed[i].task_id = t
ClaimOf(c, t) ==
    checker[c].claimed[CHOOSE i \in 1..Len(checker[c].claimed) :
                           checker[c].claimed[i].task_id = t]
ClaimedExec(c, e) ==
    \E i \in 1..Len(checker[c].claimed) : checker[c].claimed[i].id = e
ClaimOfExec(c, e) ==
    checker[c].claimed[CHOOSE i \in 1..Len(checker[c].claimed) :
                           checker[c].claimed[i].id = e]

\* Executions whose job is on its way: about to be sent by the call that
\* claimed them, queued at the broker or held by a worker.
Dispatchers(e) == {c \in SchedCallers : checker[c].pc = "dispatch" /\ ClaimedExec(c, e)}
InFlight ==
    {e \in ExecIds : jobs[e].pc \in {"queued", "stream"} \/ Dispatchers(e) # {}}

\* The executions a check made at time `at` meets as stale: running, not in
\* flight, and executed_at at least StaleAfter ago (history of the call; the
\* call itself reads none of this).
StaleExecutions(at) ==
    {e \in ExecIds : /\ executions[e].status = "running"
                     /\ e \notin InFlight
                     /\ at - executions[e].executed_at >= StaleAfter}

\* The loop of _claim_due_tasks over the selected rows, in their order: each
\* task gets its next run and status pending, and a running TaskExecution
\* with a fresh id is added and flushed.
RECURSIVE ClaimRows(_, _, _)
ClaimRows(todo, used, at) ==
    IF todo = {} THEN <<>>
    ELSE LET t == CHOOSE x \in todo :
                     \A y \in todo : tasks[x].next_execution <= tasks[y].next_execution
             id == CHOOSE e \in ExecIds : e \notin used
         IN <<[task_id |-> t, id |-> id, due |-> tasks[t].next_execution,
               next_execution |-> NextRunUtc(tasks[t].recurrence_type, at, FALSE)]>>
              \o ClaimRows(todo \ {t}, used \cup {id}, at)

\* check_due_tasks up to the end of _claim_due_tasks: the first `limit` due
\* rows by next_execution (rows with equal times in either order) are read
\* and locked, and the loop writes their claims into the transaction, where
\* they stay invisible to other sessions until the commit.
CheckSelect(c, limit) ==
    /\ checker[c].pc = "idle"
    /\ \E sel \in SUBSET DueTasks(c, clock) :
         /\ Cardinality(sel) = IF Cardinality(DueTasks(c, clock)) < limit
                               THEN Cardinality(DueTasks(c, clock)) ELSE limit
         /\ \A a \in sel, b \in DueTasks(c, clock) \ sel :
               tasks[a].next_execution <= tasks[b].next_execution
         /\ Cardinality(UsedExecIds) + Cardinality(sel) <= MaxExecs
         /\ checker' = [checker EXCEPT ![c] =
                          [pc |-> "claiming", now |-> clock,
                           claimed |-> ClaimRows(sel, UsedExecIds, clock),
                           stale |-> StaleExecutions(clock)]]
    /\ UNCHANGED <<clock, tasks, executions, jobs>>

\* check_due_tasks: await db.commit() makes the claims visible and releases
\* the row locks.
CheckCommit(c) ==
    /\ checker[c].pc = "claiming"
    /\ tasks' = [t \in SchedTasks |->
                   IF ClaimedTask(c, t)
                   THEN [tasks[t] EXCEPT
                           !.status = "pending",
                           !.next_execution = ClaimOf(c, t).next_execution]
                   ELSE tasks[t]]
    /\ executions' = [e \in ExecIds |->
                        IF ClaimedExec(c, e)
                        THEN [status |-> "running",
                              task_id |-> ClaimOfExec(c, e).task_id,
                              executed_at |-> checker[c].now,
                              completed_at |-> NoTime,
                              due |-> ClaimOfExec(c, e).due]
                        ELSE executions[e]]
    /\ checker' = [checker EXCEPT ![c].pc = "dispatch"]
    /\ UNCHANGED <<clock, jobs>>

\* check_due_tasks: the loop over claimed calls execute_task_trigger (the
\* delay of execute_scheduled_task) once per pair, then the call returns.
CheckDispatch(c) ==
    /\ checker[c].pc = "dispatch"
    /\ jobs' = [e \in ExecIds |->
                  IF ClaimedExec(c, e)
                  THEN [pc |-> "queued", sent |-> jobs[e].sent + 1]
                  ELSE jobs[e]]
    /\ checker' = [checker EXCEPT ![c] = IdleChecker]
    /\ UNCHANGED <<clock, tasks, executions>>

\* check_due_tasks: an exception of the claim (a statement fails) is logged,
\* the session is left without commit and the call returns {"error": ...}.
CheckError(c) ==
    /\ checker[c].pc = "claiming"
    /\ checker' = [checker EXCEPT ![c] = IdleChecker]
    /\ UNCHANGED <<clock, tasks, executions, jobs>>

\* _mark_execution: completed_at gets the current time. Nothing in the
\* scheduler reads the value, so the model keeps only that it is set.
SomeTime == 0
MarkExecution(execution, status) ==
    [execution EXCEPT !.status = status, !.completed_at = SomeTime]

\* _finalize_task
FinalizeTaskKeepsPending(task, success) ==
    IF task.recurrence_type = "once"
    THEN [task EXCEPT !.next_execution = NoTime,
                      !.status = IF success THEN "completed" ELSE "failed"]
    ELSE IF success THEN [task EXCEPT !.status = "active"] ELSE task
FinalizeTask(task, success) ==
    IF task.recurrence_type = "once"
    THEN [task EXCEPT !.next_execution = NoTime,
                      !.status = IF success THEN "completed" ELSE "failed"]
    ELSE [task EXCEPT !.status = "active"]

\* run_scheduled_task: a session that loads the execution and its task and,
\* when both are there, marks the execution and finalizes the task.
Finish(e, success) ==
    LET t == executions[e].task_id
        there == executions[e].status # "none" /\ tasks[t].status # "deleted"
    IN /\ executions' =
             IF there
             THEN [executions EXCEPT ![e] =
                     MarkExecution(@, IF success THEN "success" ELSE "failed")]
             ELSE executions
       /\ tasks' = IF there
                   THEN [tasks EXCEPT ![t] = FinalizeTask(@, success)]
                   ELSE tasks
       /\ jobs' = [jobs EXCEPT ![e].pc = "done"]

\* run_scheduled_task, first session: the early returns, the model_id check
\* (raises into the handler) and the validation of the API keys.
RunLoad(e, settings) ==
    /\ jobs[e].pc = "queued"
    /\ IF executions[e].status = "none"
       THEN /\ jobs' = [jobs EXCEPT ![e].pc = "done"]
            /\ UNCHANGED <<tasks, executions>>
       ELSE IF executions[e].status # "running"
       THEN /\ jobs' = [jobs EXCEPT ![e].pc = "done"]
            /\ UNCHANGED <<tasks, executions>>
       ELSE IF settings \in {"no_model", "invalid_keys"}
       THEN Finish(e, FALSE)
       ELSE /\ jobs' = [jobs EXCEPT ![e].pc = "stream"]
            /\ UNCHANGED <<tasks, executions>>
    /\ UNCHANGED <<clock, checker>>

\* run_scheduled_task from the sandbox creation on: the sandbox, the chat and
\* its messages are made and run_chat_stream returns (the execution becomes
\* success), or one of them raises and the handler marks the failure.
RunStream(e, ok) ==
    /\ jobs[e].pc = "stream"
    /\ Finish(e, ok)
    /\ UNCHANGED <<clock, checker>>

RunStep(e) ==
    \/ \E settings \in {"ok", "no_model", "invalid_keys"} : RunLoad(e, settings)
    \/ \E ok \in BOOLEAN : RunStream(e, ok)

\* The worker process executing the job dies: the job is gone, nothing of
\* run_scheduled_task runs any more.
WorkerLost(e) ==
    /\ jobs[e].pc \in {"queued", "stream"}
    /\ jobs' = [jobs EXCEPT ![e].pc = "lost"]
    /\ UNCHANGED <<clock, tasks, executions, checker>>

\* ----------------------------------------------------- Permission registry
\* PendingRequest: state listed is its membership of PermissionManager._pending
\* (a waiter keeps its reference after the pop); responded_at is history: the
\* time of the first respond that found the request. A waiter's on_pending
\* tells whether the request was listed and not expired when the call began.
NoRequest ==
    [state |-> "none", expires_at |-> 0, response |-> "none", event |-> FALSE,
     responded_at |-> NoTime]
IdleWaiter ==
    [pc |-> "idle", on_pending |-> FALSE, started |-> 0, timeout |-> 0,
     deadline |-> 0, result |-> "none", returned_at |-> NoTime]
IdleBus == [sub |-> "idle", inbox |-> <<>>, published |-> <<>>, status |-> 0, result |-> "none"]

\* The body the endpoint publishes for a request that is missing or expired.
ExpiredDenial ==
    [approved |-> FALSE,
     alternative_instruction |-> "Permission request expired. Please try again."]

\* _prune_expired: every entry with expires_at <= now leaves _pending.
PruneExpired(reqs, at) ==
    [r \in ReqIds |->
        IF reqs[r].state = "listed" /\ reqs[r].expires_at <= at
        THEN [reqs[r] EXCEPT !.state = "popped"]
        ELSE reqs[r]]

\* _pending.pop(request_id, None)
PopRequestKept(reqs, r) == reqs
PopRequest(reqs, r) ==
    [reqs EXCEPT ![r].state = IF @ = "listed" THEN "popped" ELSE @]

\* create_request, with a fresh request id.
PermCreate(r) ==
    /\ preq[r].state = "none"
    /\ preq' = [PruneExpired(preq, ptime) EXCEPT ![r] =
                  [NoRequest EXCEPT !.state = "listed",
                                    !.expires_at = ptime + PermTtl]]
    /\ UNCHANGED <<ptime, pwait, pbus>>

\* get_request_data, or any access made for another request: it prunes.
PermGet ==
    /\ preq' = PruneExpired(preq, ptime)
    /\ preq' # preq
    /\ UNCHANGED <<ptime, pwait, pbus>>

\* wait_timeout = max(min(timeout, remaining_ttl), 0.0)
WaitTimeout(timeout, remaining_ttl) ==
    LET m == IF timeout < remaining_ttl THEN timeout ELSE remaining_ttl
    IN IF m > 0 THEN m ELSE 0

\* wait_for_response up to the await: prune, look the request up, compute the
\* timeout. asyncio.wait_for with a timeout of 0 or less does not run the
\* awaited event.wait(): it cancels it and raises TimeoutError, whether or not
\* the event is set; the handler pops the request and returns None.
WaitStart(r, timeout) ==
    /\ pwait[r].pc = "idle"
    /\ LET reqs == PruneExpired(preq, ptime)
           wait_timeout == WaitTimeout(timeout, reqs[r].expires_at - ptime)
       IN IF reqs[r].state # "listed"
          THEN /\ preq' = reqs
               /\ pwait' = [pwait EXCEPT ![r] =
                              [pc |-> "returned", on_pending |-> FALSE, started |-> ptime, timeout |-> timeout,
                               deadline |-> ptime, result |-> "null",
                               returned_at |-> ptime]]
          ELSE IF wait_timeout <= 0
          THEN /\ preq' = PopRequest(reqs, r)
               /\ pwait' = [pwait EXCEPT ![r] =
                              [pc |-> "returned", on_pending |-> TRUE, started |-> ptime, timeout |-> timeout,
                               deadline |-> ptime, result |-> "null",
                               returned_at |-> ptime]]
          ELSE /\ preq' = reqs
               /\ pwait' = [pwait EXCEPT ![r] =
                              [pc |-> "waiting", on_pending |-> TRUE, started |-> ptime, timeout |-> timeout,
                               deadline |-> ptime + wait_timeout,
                               result |-> "none", returned_at |-> NoTime]]
    /\ UNCHANGED <<ptime, pbus>>

\* A waiter that the loop can resume: its event is set or its timer is due.
Woken(r) == pwait[r].pc = "waiting" /\ preq[r].event
TimerDue(r) == pwait[r].pc = "waiting" /\ ptime >= pwait[r].deadline

\* wait_for_response after the await: on TimeoutError the request is popped
\* and None returned; otherwise the request is popped and its response
\* returned (None if it is no longer listed). When the event is set and the
\* timer is due in the same instant, wait_for may end either way.
WaitReturn(r) ==
    /\ Woken(r) \/ TimerDue(r)
    /\ \E timed_out \in BOOLEAN :
         /\ timed_out => TimerDue(r)
         /\ ~timed_out => Woken(r)
         /\ preq' = PopRequest(preq, r)
         /\ pwait' = [pwait EXCEPT
               ![r].pc = "returned",
               ![r].returned_at = ptime,
               ![r].result = IF timed_out \/ preq[r].state # "listed"
                             THEN "null" ELSE preq[r].response]
    /\ UNCHANGED <<ptime, pbus>>

\* PermissionManager.respond: whether the request is there after the prune.
FoundAlways(reqs, r) == reqs[r].state # "none"
Found(reqs, r) == reqs[r].state = "listed"

\* POST /chats/{id}/permissions/{rid}/respond: respond stores the response and
\* sets the event of a request that is listed and not expired (200);
\* otherwise it stores nothing and the endpoint publishes the denial on the
\* response channel of the request (it reaches the subscribers attached at
\* that moment) and answers 404.
PermRespond(r, approved) ==
    LET reqs == PruneExpired(preq, ptime)
    IN /\ IF Found(reqs, r)
          THEN /\ preq' = [reqs EXCEPT
                     ![r].response = IF approved THEN "approved" ELSE "denied",
                     ![r].event = TRUE,
                     ![r].responded_at = IF @ = NoTime THEN ptime ELSE @]
               /\ pbus' = [pbus EXCEPT ![r].status = 200]
          ELSE /\ preq' = reqs
               /\ pbus' = [pbus EXCEPT
                     ![r].status = 404,
                     ![r].published = IF Len(@) < MaxPublish
                                      THEN Append(@, ExpiredDenial) ELSE @,
                     ![r].inbox = IF pbus[r].sub = "listening" /\ Len(@) < MaxPublish
                                  THEN Append(@, ExpiredDenial) ELSE @]
       /\ UNCHANGED <<ptime, pwait>>

\* get_permission_response up to the subscription: the request key is found,
\* its TTL refreshed, the response channel subscribed.
SubAttach(r) ==
    /\ pbus[r].sub = "idle"
    /\ preq[r].state # "none"
    /\ pbus' = [pbus EXCEPT ![r].sub = "listening"]
    /\ UNCHANGED <<ptime, preq, pwait>>

\* get_permission_response: the first message of the channel is parsed and
\* returned.
SubReceive(r) ==
    /\ pbus[r].sub = "listening"
    /\ pbus[r].inbox # <<>>
    /\ pbus' = [pbus EXCEPT ![r].sub = "returned",
                            ![r].result = IF Head(pbus[r].inbox).approved
                                          THEN "approved" ELSE "denied"]
    /\ UNCHANGED <<ptime, preq, pwait>>

\* get_permission_response: asyncio.timeout(timeout) expires, 408.
SubTimeout(r) ==
    /\ pbus[r].sub = "listening"
    /\ pbus[r].inbox = <<>>
    /\ pbus' = [pbus EXCEPT ![r].sub = "returned", ![r].result = "timeout"]
    /\ UNCHANGED <<ptime, preq, pwait>>

\* time.monotonic() advances once every waiter the loop can resume has run.
PermTick ==
    /\ ptime < MaxPermTime
    /\ \A r \in ReqIds : ~Woken(r) /\ ~TimerDue(r)
    /\ ptime' = ptime + 1
    /\ UNCHANGED <<preq, pwait, pbus>>

\* ------------------------------------------ Concurrent waits on one request
CoWaiters == 1..MaxCoWaiters
CoRequest == CHOOSE r \in ReqIds : TRUE

\* wait_for_response by caller w up to the await (see WaitStart): each caller
\* holds its own reference to the PendingRequest it found and waits on the
\* event of that object.
CoWaitStart(w, timeout) ==
    /\ cowait[w].pc = "idle"
    /\ LET r == CoRequest
           reqs == PruneExpired(preq, ptime)
           wait_timeout == WaitTimeout(timeout, reqs[r].expires_at - ptime)
       IN IF reqs[r].state # "listed"
          THEN /\ preq' = reqs
               /\ cowait' = [cowait EXCEPT ![w] =
                              [pc |-> "returned", on_pending |-> FALSE, started |-> ptime,
                               timeout |-> timeout, deadline |-> ptime,
                               result |-> "null", returned_at |-> ptime]]
          ELSE IF wait_timeout <= 0
          THEN /\ preq' = PopRequest(reqs, r)
               /\ cowait' = [cowait EXCEPT ![w] =
                              [pc |-> "returned", on_pending |-> TRUE, started |-> ptime,
                               timeout |-> timeout, deadline |-> ptime,
                               result |-> "null", returned_at |-> ptime]]
          ELSE /\ preq' = reqs
               /\ cowait' = [cowait EXCEPT ![w] =
                              [pc |-> "waiting", on_pending |-> TRUE, started |-> ptime,
                               timeout |-> timeout, deadline |-> ptime + wait_timeout,
                               result |-> "none", returned_at |-> NoTime]]
    /\ UNCHANGED <<ptime, pwait, pbus, runner, calc>>

CoWoken(w) == cowait[w].pc = "waiting" /\ preq[CoRequest].event
CoTimerDue(w) == cowait[w].pc = "waiting" /\ ptime >= cowait[w].deadline

\* wait_for_response by caller w after the await: no await lies between the
\* return of wait_for and the pop, so the callers woken by one respond run
\* this one after the other.
CoWaitReturn(w) ==
    /\ CoWoken(w) \/ CoTimerDue(w)
    /\ \E timed_out \in BOOLEAN :
         /\ timed_out => CoTimerDue(w)
         /\ ~timed_out => CoWoken(w)
         /\ preq' = PopRequest(preq, CoRequest)
         /\ cowait' = [cowait EXCEPT
               ![w].pc = "returned",
               ![w].returned_at = ptime,
               ![w].result = IF timed_out \/ preq[CoRequest].state # "listed"
                             THEN "null" ELSE preq[CoRequest].response]
    /\ UNCHANGED <<ptime, pwait, pbus, runner, calc>>

\* time.monotonic() advances once every caller the loop can resume has run.
CoTick ==
    /\ ptime < MaxPermTime
    /\ \A w \in CoWaiters : ~CoWoken(w) /\ ~CoTimerDue(w)
    /\ ptime' = ptime + 1
    /\ UNCHANGED <<preq, pwait, pbus, auxVars>>

\* ------------------------------------------- Runner with a cancel monitor
\* The runner of runner.py with the CancellationHandler instance of its
\* stream: pc is where the main task is suspended ("start": in the append of
\* stream_started or the first snapshot write, "anext": in
\* stream_iter.__anext__, "emit": in _emit_event, "flush": in
\* _flush_snapshot, "after": back in run() after _consume_stream,
\* "completing": in _complete_stream), mon is the monitor task
\* (_monitor_revocation), calls counts the invocations of
\* ai_service.cancel_active_stream, must_cancel is a main_task.cancel() not
\* yet delivered.
IdleRunner ==
    [pc |-> "idle", mon |-> "none", event |-> FALSE, was_cancelled |-> FALSE,
     cancel_requested |-> FALSE, calls |-> 0, must_cancel |-> FALSE,
     left |-> MaxAgentEvents, event_count |-> 0, outcome |-> "none",
     cancel_result |-> "none"]

\* CancellationHandler.cancel_stream: the first call sets cancel_requested and
\* invokes ai_service.cancel_active_stream; later calls return at once.
CancelStreamUnguarded(x) ==
    [x EXCEPT !.cancel_requested = TRUE, !.calls = @ + 1]
CancelStream(x) ==
    IF x.cancel_requested THEN x
    ELSE [x EXCEPT !.cancel_requested = TRUE, !.calls = @ + 1]

\* _consume_stream, finally: revocation_task.cancel() and the await of the
\* task; a monitor that has not finished ends cancelled wherever it is.
StopMonitor(x) ==
    [x EXCEPT !.mon = IF @ \in {"waiting", "cancelling"} THEN "killed" ELSE @]

\* request_cancel: the event of the chat is set (a cancel recorded before the
\* register sets the event at register).
RunnerRequestCancel ==
    /\ ~runner.event
    /\ runner.pc \notin {"returned", "raised"}
    /\ runner' = [runner EXCEPT !.event = TRUE]

\* execute_chat_stream: register, the handler is built on the event, run()
\* issues the append of stream_started.
RunnerStart ==
    /\ runner.pc = "idle"
    /\ runner' = [runner EXCEPT !.pc = "start"]

\* run(): stream_started is in the log and the first snapshot written;
\* _consume_stream starts the monitor with create_monitor_task and awaits the
\* first event.
RunnerConsume ==
    /\ runner.pc = "start"
    /\ ~runner.must_cancel
    /\ runner' = [runner EXCEPT !.pc = "anext", !.mon = "waiting"]

\* _monitor_revocation after wait_for_revocation: was_cancelled = True and
\* cancel_stream, which suspends in ai_service.cancel_active_stream.
MonitorWake ==
    /\ runner.mon = "waiting"
    /\ runner.event
    /\ runner' = [CancelStream([runner EXCEPT !.was_cancelled = TRUE])
                     EXCEPT !.mon = "cancelling"]

\* _monitor_revocation: cancel_active_stream returned (ok) or raised, which
\* cancel_stream logs; main_task.cancel().
MonitorCancelMain(ok) ==
    /\ runner.mon = "cancelling"
    /\ runner' = [runner EXCEPT !.mon = "done",
                                !.cancel_result = IF ok THEN "ok" ELSE "logged",
                                !.must_cancel = runner.pc \in {"anext", "emit", "flush"}]

\* stop_background_chats: task.cancel() on the main task while it is
\* suspended.
RunnerTaskCancel ==
    /\ runner.pc \in {"start", "anext", "emit", "flush", "completing"}
    /\ ~runner.must_cancel
    /\ runner' = [runner EXCEPT !.must_cancel = TRUE]

\* The agent yields an event: event_count += 1, _emit_event is awaited.
RunnerEvent ==
    /\ runner.pc = "anext"
    /\ ~runner.must_cancel
    /\ runner.left > 0
    /\ runner' = [runner EXCEPT !.pc = "emit", !.left = @ - 1, !.event_count = @ + 1]

\* _emit_event returned: _flush_snapshot(force=False) is awaited when a
\* flush is due, else the next __anext__.
RunnerEmitted(due) ==
    /\ runner.pc = "emit"
    /\ ~runner.must_cancel
    /\ runner' = [runner EXCEPT !.pc = IF due THEN "flush" ELSE "anext"]

\* _flush_snapshot returned: the next __anext__ is awaited.
RunnerFlushed ==
    /\ runner.pc = "flush"
    /\ ~runner.must_cancel
    /\ runner' = [runner EXCEPT !.pc = "anext"]

\* The agent stream raises: the monitor is stopped, the error handler of
\* run() runs and re-raises.
RunnerStreamError ==
    /\ runner.pc = "anext"
    /\ ~runner.must_cancel
    /\ runner' = [StopMonitor(runner) EXCEPT !.pc = "raised", !.outcome = "failed"]

\* StopAsyncIteration: the loop breaks, the monitor is stopped.
RunnerStreamEnd ==
    /\ runner.pc = "anext"
    /\ ~runner.must_cancel
    /\ runner' = [StopMonitor(runner) EXCEPT !.pc = "after"]

\* CancelledError in __anext__: with was_cancelled the handler's cancel_stream
\* is called and the loop breaks; else the error is re-raised.
RunnerCancelledInAnext ==
    /\ runner.pc = "anext"
    /\ runner.must_cancel
    /\ runner' =
          IF runner.was_cancelled
          THEN [StopMonitor(CancelStream(runner)) EXCEPT !.pc = "after", !.must_cancel = FALSE]
          ELSE [StopMonitor(runner) EXCEPT !.pc = "raised", !.must_cancel = FALSE,
                                           !.outcome = "task_cancelled"]

\* CancelledError in any other await of run(): outside the handler of the
\* loop; it leaves _consume_stream (stopping the monitor) and run() (it is
\* no Exception).
RunnerCancelledInEmit ==
    /\ runner.pc \in {"start", "emit", "flush", "completing"}
    /\ runner.must_cancel
    /\ runner' = [StopMonitor(runner) EXCEPT !.pc = "raised", !.must_cancel = FALSE,
                                             !.outcome = "task_cancelled"]

\* run() after _consume_stream: with was_cancelled, cancel_active_stream is
\* invoked unless cancel_requested, then _complete_stream(INTERRUPTED) and
\* StreamCancelled; zero events raise; else _complete_stream(COMPLETED).
RunnerFinish ==
    /\ runner.pc = "after"
    /\ runner' =
          IF runner.was_cancelled
          THEN [runner EXCEPT !.pc = "completing", !.outcome = "interrupted",
                              !.calls = IF runner.cancel_requested THEN @ ELSE @ + 1]
          ELSE IF runner.event_count = 0
               THEN [runner EXCEPT !.pc = "raised", !.outcome = "failed"]
               ELSE [runner EXCEPT !.pc = "completing", !.outcome = "completed"]

\* _complete_stream returned: run() returns the content (COMPLETED) or raises
\* StreamCancelled (INTERRUPTED).
RunnerReturn ==
    /\ runner.pc = "completing"
    /\ ~runner.must_cancel
    /\ runner' = [runner EXCEPT !.pc = "returned"]

Init ==
    /\ last_event_seq = 0
    /\ log = <<>>
    /\ messages = [m \in MsgIds |-> NoMsg]
    /\ msgCount = 0
    /\ tx = [c \in Callers |-> IdleTx]
    /\ chatLock = 0
    /\ removedRows = <<>>
    /\ resState = "off"
    /\ resN = 0
    /\ resCursor = 0
    /\ resOut = <<>>
    /\ rt = [r \in Runtimes |-> InitRt]
    /\ poller = [r \in Runtimes |-> InitPoller]
    /\ regEvent = 0
    /\ evSet = [r \in Runtimes |-> FALSE]
    /\ pending = NoPending
    /\ now = 0
    /\ perm = IdlePerm
    /\ queue = NoQueue
    /\ qClient = [c \in QClients |-> IdleClient]
    /\ qHist = NoHist
    /\ clock = 0
    /\ tasks = [t \in SchedTasks |-> NoTask]
    /\ executions = [e \in ExecIds |-> NoExecution]
    /\ checker = [c \in SchedCallers |-> IdleChecker]
    /\ jobs = [e \in ExecIds |-> NoJob]
    /\ ptime = 0
    /\ preq = [r \in ReqIds |-> NoRequest]
    /\ pwait = [r \in ReqIds |-> IdleWaiter]
    /\ pbus = [r \in ReqIds |-> IdleBus]
    /\ runner = IdleRunner
    /\ calc = IdleCalc
    /\ cowait = [w \in CoWaiters |-> IdleWaiter]

\* The event log under concurrent appenders, message deletes and a resumer.
LogNext ==
    \/ \E c \in Callers, m \in MsgIds :
          TxUpdate(c, m, 1, "system") /\ UNCHANGED <<resVars, streamVars, queueVars, svcVars>>
    \/ \E c \in Callers, m \in MsgIds, n \in 1..MaxBatch :
          TxUpdateBatch(c, m, 1, n) /\ UNCHANGED <<resVars, streamVars, queueVars, svcVars>>
    \/ \E c \in Callers : TxInsert(c) /\ UNCHANGED <<resVars, streamVars, queueVars, svcVars>>
    \/ \E c \in Callers : TxCommit(c) /\ UNCHANGED <<resVars, streamVars, queueVars, svcVars>>
    \/ \E c \in Callers : TxRollback(c) /\ UNCHANGED <<resVars, streamVars, queueVars, svcVars>>
    \/ \E m \in MsgIds : LogCreateMessage(m) /\ UNCHANGED <<resVars, streamVars, queueVars, svcVars>>
    \/ \E m \in 0..MaxMsgs :
          DeleteMessagesAfter(m) /\ UNCHANGED <<resVars, streamVars, queueVars, svcVars>>
    \/ \E q \in Cursors, h \in Cursors :
          ResumerConnect(q, h) /\ UNCHANGED <<streamVars, queueVars, svcVars>>
    \/ ResumerPoll /\ UNCHANGED <<streamVars, queueVars, svcVars>>

SpecLog == Init /\ [][LogNext]_vars

\* Steps of the task of runtime r.
RuntimeStep(r) ==
    \/ TaskStart(r) /\ UNCHANGED <<resVars, svcVars>>
    \/ BootOk(r) /\ UNCHANGED <<resVars, svcVars>>
    \/ BootFail(r) /\ UNCHANGED <<resVars, svcVars>>
    \/ Connect(r) /\ UNCHANGED <<resVars, svcVars>>
    \/ FlushEnd(r) /\ UNCHANGED <<resVars, svcVars>>
    \/ EmitStart(r) /\ UNCHANGED <<resVars, svcVars>>
    \/ SnapStart(r) /\ UNCHANGED <<resVars, svcVars>>
    \/ LoopCancel(r) /\ UNCHANGED <<resVars, svcVars>>
    \/ \E kind \in AgentKinds, elapsed \in BOOLEAN :
          LoopEvent(r, kind, AgentText(kind), elapsed) /\ UNCHANGED <<resVars, svcVars>>
    \/ LoopEnd(r) /\ UNCHANGED <<resVars, svcVars>>
    \/ LoopError(r) /\ UNCHANGED <<resVars, svcVars>>
    \/ FlushSnapWrite(r) /\ UNCHANGED <<resVars, svcVars>>
    \/ FinalSnapWrite(r) /\ UNCHANGED <<resVars, svcVars>>
    \/ QueuePop(r) /\ UNCHANGED <<resVars, svcVars>>
    \/ \E emit \in BOOLEAN : FinalUsage(r, emit) /\ UNCHANGED <<resVars, svcVars>>
    \/ EmitTerminal(r) /\ UNCHANGED <<resVars, svcVars>>
    \/ ErrEmit(r) /\ UNCHANGED <<resVars, svcVars>>
    \/ ErrSnap(r) /\ UNCHANGED <<resVars, svcVars>>
    \/ Exit(r) /\ UNCHANGED <<resVars, svcVars>>

\* One turn of a chat: its runtime and the cancel requests.
CoreNext ==
    \/ StartTurn /\ UNCHANGED <<resVars, svcVars>>
    \/ \E r \in Runtimes : RuntimeStep(r)
    \/ RequestCancel /\ UNCHANGED <<resVars, svcVars>>
    \/ Tick /\ UNCHANGED <<resVars, svcVars>>

SpecTurn == Init /\ [][CoreNext]_vars

\* The event loop runs every task that is ready and the statements it
\* awaits return: a runtime that can step eventually steps.
SpecTurnFair == SpecTurn /\ \A r \in Runtimes : WF_vars(RuntimeStep(r))

\* A step the task of runtime r takes by itself: every step but the ones
\* that need the agent stream to yield, end or raise (at the await of
\* _next_or_cancel only a set cancel event wakes the task otherwise).
OwnStep(r) == (rt[r].pc # "loop" \/ evSet[r]) /\ RuntimeStep(r)

\* The event loop runs every ready task and awaited statements return; the
\* agent stream may stay silent for as long as it likes.
SpecQuietFair == SpecTurn /\ \A r \in Runtimes : WF_vars(OwnStep(r))

\* ------------------------------------------------ Scenario: one plain turn
\* The agent stream of the scenario: assistant_text("Hi"), tool_started,
\* tool_completed, assistant_text(" there."); a text is a sequence of pieces.
S1Script ==
    <<Item("assistant_text", <<"Hi">>), Item("tool_started", <<>>),
      Item("tool_completed", <<>>), Item("assistant_text", <<" there.">>)>>

\* The turn of the scenario starts on a chat with last_event_seq = 0 and an
\* empty queue, under a fresh stream id; the agent has the whole script to
\* yield.
S1Start ==
    /\ msgCount = 0 /\ last_event_seq = 0 /\ queue = NoQueue
    /\ \A k \in Runtimes : rt[k].pc = "idle"
    /\ CreateMessage(1, "in_progress")
    /\ \E r \in Runtimes :
          rt' = [StartBackgroundChat(r, 1, <<"p">>) EXCEPT ![r].agentLeft = Len(S1Script)]
    /\ UNCHANGED <<last_event_seq, log, tx, chatLock, removedRows, poller,
                   regEvent, evSet, pending, now, queue, perm, qVars>>

\* _next_or_cancel returns the next event of the script.
S1Event(r, elapsed) ==
    /\ rt[r].event_count < Len(S1Script)
    /\ LET e == S1Script[rt[r].event_count + 1]
       IN LoopEvent(r, e.kind, e.text, elapsed)

\* The agent stream ends after the last event of the script.
S1End(r) ==
    /\ rt[r].event_count = Len(S1Script)
    /\ LoopEnd(r)

\* Steps of the task of runtime r in the scenario: no cancel request, no
\* queued follow-up, no failure of the sandbox, the agent or the database.
S1Step(r) ==
    \/ TaskStart(r) /\ UNCHANGED <<resVars, svcVars>>
    \/ BootOk(r) /\ UNCHANGED <<resVars, svcVars>>
    \/ Connect(r) /\ UNCHANGED <<resVars, svcVars>>
    \/ FlushEnd(r) /\ UNCHANGED <<resVars, svcVars>>
    \/ EmitStart(r) /\ UNCHANGED <<resVars, svcVars>>
    \/ SnapStart(r) /\ UNCHANGED <<resVars, svcVars>>
    \/ \E elapsed \in BOOLEAN : S1Event(r, elapsed) /\ UNCHANGED <<resVars, svcVars>>
    \/ S1End(r) /\ UNCHANGED <<resVars, svcVars>>
    \/ FlushSnapWrite(r) /\ UNCHANGED <<resVars, svcVars>>
    \/ FinalSnapWrite(r) /\ UNCHANGED <<resVars, svcVars>>
    \/ QueuePop(r) /\ UNCHANGED <<resVars, svcVars>>
    \/ \E emit \in BOOLEAN : FinalUsage(r, emit) /\ UNCHANGED <<resVars, svcVars>>
    \/ EmitTerminal(r) /\ UNCHANGED <<resVars, svcVars>>
    \/ Exit(r) /\ UNCHANGED <<resVars, svcVars>>

S1Next ==
    \/ S1Start /\ UNCHANGED <<resVars, svcVars>>
    \/ \E r \in Runtimes : S1Step(r)

SpecS1 == Init /\ [][S1Next]_vars

\* --------------------------------------------------- Scenario: a long turn
\* The agent stream of a long turn: text and tool events in turn.
BurstKind(n) == IF n % 2 = 1 THEN "assistant_text" ELSE "tool_started"

\* A turn whose agent has MaxBurst events to yield.
BurstStart ==
    /\ msgCount = 0 /\ last_event_seq = 0 /\ queue = NoQueue
    /\ \A k \in Runtimes : rt[k].pc = "idle"
    /\ CreateMessage(1, "in_progress")
    /\ rt' = [StartBackgroundChat(FirstIdle, 1, <<"p">>) EXCEPT ![FirstIdle].agentLeft = MaxBurst]
    /\ UNCHANGED <<last_event_seq, log, tx, chatLock, removedRows, poller,
                   regEvent, evSet, pending, now, queue, perm, qVars>>

\* _next_or_cancel returns the next event of the long stream.
BurstEvent(r, elapsed) ==
    LET kind == BurstKind(rt[r].event_count + 1)
    IN LoopEvent(r, kind, AgentText(kind), elapsed)

\* Steps of the task of runtime r in a long turn; the stream may end after
\* any event.
BurstStep(r) ==
    \/ TaskStart(r) /\ UNCHANGED <<resVars, svcVars>>
    \/ BootOk(r) /\ UNCHANGED <<resVars, svcVars>>
    \/ Connect(r) /\ UNCHANGED <<resVars, svcVars>>
    \/ FlushEnd(r) /\ UNCHANGED <<resVars, svcVars>>
    \/ EmitStart(r) /\ UNCHANGED <<resVars, svcVars>>
    \/ SnapStart(r) /\ UNCHANGED <<resVars, svcVars>>
    \/ \E elapsed \in BOOLEAN : BurstEvent(r, elapsed) /\ UNCHANGED <<resVars, svcVars>>
    \/ LoopEnd(r) /\ UNCHANGED <<resVars, svcVars>>
    \/ FlushSnapWrite(r) /\ UNCHANGED <<resVars, svcVars>>
    \/ FinalSnapWrite(r) /\ UNCHANGED <<resVars, svcVars>>
    \/ QueuePop(r) /\ UNCHANGED <<resVars, svcVars>>
    \/ \E emit \in BOOLEAN : FinalUsage(r, emit) /\ UNCHANGED <<resVars, svcVars>>
    \/ EmitTerminal(r) /\ UNCHANGED <<resVars, svcVars>>
    \/ ErrEmit(r) /\ UNCHANGED <<resVars, svcVars>>
    \/ ErrSnap(r) /\ UNCHANGED <<resVars, svcVars>>
    \/ Exit(r) /\ UNCHANGED <<resVars, svcVars>>

BurstNext ==
    \/ BurstStart /\ UNCHANGED <<resVars, svcVars>>
    \/ \E r \in Runtimes : BurstStep(r)

SpecBurst == Init /\ [][BurstNext]_vars

\* Steps of the follow-up handoff of runtime r.
HandoffStep(r) ==
    \/ QueueCreate(r) /\ UNCHANGED <<resVars, svcVars>>
    \/ QueueEmit(r) /\ UNCHANGED <<resVars, svcVars>>

\* A chat with the follow-up queue: the completing runtime hands off.
Next ==
    \/ CoreNext
    \/ \E r \in Runtimes : HandoffStep(r)
    \/ QueueUpsert(FollowUp) /\ UNCHANGED <<resVars, svcVars>>

Spec == Init /\ [][Next]_vars

\* The same chat when a statement of the handoff, or the append of the
\* terminal event, can raise.
HandoffFaultNext ==
    \/ Next
    \/ \E r \in Runtimes : EmitTerminalFails(r) /\ UNCHANGED <<resVars, svcVars>>
    \/ \E r \in Runtimes : QueueCreateFails(r) /\ UNCHANGED <<resVars, svcVars>>
    \/ \E r \in Runtimes, emitted \in BOOLEAN :
          QueueHandoffFails(r, emitted) /\ UNCHANGED <<resVars, svcVars>>

SpecHandoffFault == Init /\ [][HandoffFaultNext]_vars

\* A turn with the other appenders of the log: the context-usage poller of
\* the runtime and the permission endpoint.
SideNext ==
    \/ CoreNext
    \/ \E r \in Runtimes : PollEmit(r) /\ UNCHANGED <<resVars, svcVars>>
    \/ \E r \in Runtimes : PollFlushEnd(r) /\ UNCHANGED <<resVars, svcVars>>
    \/ \E r \in Runtimes : PollWrite(r) /\ UNCHANGED <<resVars, svcVars>>
    \/ PermRead /\ UNCHANGED <<resVars, svcVars>>
    \/ PermAppend /\ UNCHANGED <<resVars, svcVars>>

SpecSide == Init /\ [][SideNext]_vars

\* A turn with the permission endpoint and a live bus whose publish can fail.
BusNext ==
    \/ CoreNext
    \/ PermRead /\ UNCHANGED <<resVars, svcVars>>
    \/ PermAppend /\ UNCHANGED <<resVars, svcVars>>
    \/ \E ok \in BOOLEAN : PermPublish(ok) /\ UNCHANGED <<resVars, svcVars>>

SpecBus == Init /\ [][BusNext]_vars

\* The runner with its cancel monitor, under cancel requests.
CancelNext ==
    \/ RunnerRequestCancel /\ UNCHANGED <<chatVars, schedVars, permVars, calc, cowait>>
    \/ RunnerStart /\ UNCHANGED <<chatVars, schedVars, permVars, calc, cowait>>
    \/ MonitorWake /\ UNCHANGED <<chatVars, schedVars, permVars, calc, cowait>>
    \/ \E ok \in BOOLEAN : MonitorCancelMain(ok) /\ UNCHANGED <<chatVars, schedVars, permVars, calc, cowait>>
    \/ RunnerTaskCancel /\ UNCHANGED <<chatVars, schedVars, permVars, calc, cowait>>
    \/ RunnerEvent /\ UNCHANGED <<chatVars, schedVars, permVars, calc, cowait>>
    \/ RunnerConsume /\ UNCHANGED <<chatVars, schedVars, permVars, calc, cowait>>
    \/ \E due \in BOOLEAN : RunnerEmitted(due) /\ UNCHANGED <<chatVars, schedVars, permVars, calc, cowait>>
    \/ RunnerFlushed /\ UNCHANGED <<chatVars, schedVars, permVars, calc, cowait>>
    \/ RunnerStreamError /\ UNCHANGED <<chatVars, schedVars, permVars, calc, cowait>>
    \/ RunnerReturn /\ UNCHANGED <<chatVars, schedVars, permVars, calc, cowait>>
    \/ RunnerStreamEnd /\ UNCHANGED <<chatVars, schedVars, permVars, calc, cowait>>
    \/ RunnerCancelledInAnext /\ UNCHANGED <<chatVars, schedVars, permVars, calc, cowait>>
    \/ RunnerCancelledInEmit /\ UNCHANGED <<chatVars, schedVars, permVars, calc, cowait>>
    \/ RunnerFinish /\ UNCHANGED <<chatVars, schedVars, permVars, calc, cowait>>

SpecCancel == Init /\ [][CancelNext]_vars

\* Calls of _next_run_utc with every kind of schedule, from every instant
\* of the first MaxFromDay days, in every zone.
CalcNext ==
    /\ calc.pc = "idle"
    /\ \E recurrence_type \in AllRecurrences, scheduled_time \in 0..MaxTod,
          from_time \in 0..(MaxFromDay * Slots - 1), tz \in Zones, allow_once \in BOOLEAN :
           \E scheduled_day \in ScheduledDaysOf(recurrence_type) :
               /\ allow_once \/ recurrence_type = "once"
               /\ NextRunCall(recurrence_type, scheduled_time, scheduled_day,
                              from_time, tz, allow_once)
               /\ UNCHANGED <<chatVars, schedVars, permVars>>

SpecCalc == Init /\ [][CalcNext]_vars

\* A turn with a database that can refuse the append of the terminal event.
FaultNext ==
    \/ CoreNext
    \/ \E r \in Runtimes : EmitTerminalFails(r) /\ UNCHANGED <<resVars, svcVars>>

SpecFault == Init /\ [][FaultNext]_vars

\* A turn with cancellation of the background task (process shutdown).
ShutdownNext ==
    \/ CoreNext
    \/ \E r \in Runtimes : TaskCancelUnstarted(r) /\ UNCHANGED <<resVars, svcVars>>
    \/ \E r \in Runtimes : TaskCancelBoot(r) /\ UNCHANGED <<resVars, svcVars>>
    \/ \E r \in Runtimes : TaskCancel(r) /\ UNCHANGED <<resVars, svcVars>>
    \/ \E r \in Runtimes : CancelMark(r) /\ UNCHANGED <<resVars, svcVars>>
    \/ \E r \in Runtimes, kind \in AgentKinds, elapsed \in BOOLEAN :
          TaskCancelSwallowed(r, kind, AgentText(kind), elapsed)
             /\ UNCHANGED <<resVars, svcVars>>

SpecShutdown == Init /\ [][ShutdownNext]_vars

\* A turn with a second start on the assistant message its stream holds.
DupNext ==
    \/ CoreNext
    \/ \E m \in MsgIds : StartOnHeld(m) /\ UNCHANGED <<resVars, svcVars>>

SpecDup == Init /\ [][DupNext]_vars

\* The queue key under concurrent clients, clear, pop and expiry.
QueueNext ==
    \/ \E c \in QClients, content \in QContents :
          WatchGet(c, "upsert", content) /\ UNCHANGED <<resVars, svcVars>>
    \/ \E c \in QClients : WatchGet(c, "update", UpdateContent) /\ UNCHANGED <<resVars, svcVars>>
    \/ \E c \in QClients : UpsertExec(c) /\ UNCHANGED <<resVars, svcVars>>
    \/ \E c \in QClients : UpdateExec(c) /\ UNCHANGED <<resVars, svcVars>>
    \/ \E c \in QClients : ExecConflict(c) /\ UNCHANGED <<resVars, svcVars>>
    \/ ClearQueue /\ UNCHANGED <<resVars, svcVars>>
    \/ PopNext /\ UNCHANGED <<resVars, svcVars>>
    \/ Expire /\ UNCHANGED <<resVars, svcVars>>

SpecQueue == Init /\ [][QueueNext]_vars

\* Steps of one check_due_tasks call.
CheckStep(c) ==
    \/ \E limit \in Limits : CheckSelect(c, limit) /\ UNCHANGED <<chatVars, permVars, auxVars>>
    \/ CheckCommit(c) /\ UNCHANGED <<chatVars, permVars, auxVars>>
    \/ CheckDispatch(c) /\ UNCHANGED <<chatVars, permVars, auxVars>>

\* Steps of the execute_scheduled_task job of execution e.
JobStep(e) == RunStep(e) /\ UNCHANGED <<chatVars, permVars, auxVars>>

\* The scheduler: tasks are created, time passes, workers run
\* check_due_tasks concurrently and execute the dispatched jobs.
SchedNext ==
    \/ \E t \in SchedTasks, r \in RecurrenceTypes : CreateTask(t, r) /\ UNCHANGED <<chatVars, permVars, auxVars>>
    \/ ClockTick /\ UNCHANGED <<chatVars, permVars, auxVars>>
    \/ \E c \in SchedCallers : CheckStep(c)
    \/ \E c \in SchedCallers : CheckError(c) /\ UNCHANGED <<chatVars, permVars, auxVars>>
    \/ \E e \in ExecIds : JobStep(e)

SpecSched == Init /\ [][SchedNext]_vars

\* One worker's beat and the jobs it dispatches.
RunNext ==
    \/ \E t \in SchedTasks, r \in RecurrenceTypes : CreateTask(t, r) /\ UNCHANGED <<chatVars, permVars, auxVars>>
    \/ ClockTick /\ UNCHANGED <<chatVars, permVars, auxVars>>
    \/ CheckStep(1)
    \/ \E e \in ExecIds : JobStep(e)

\* The beat keeps calling check_due_tasks, the broker delivers every job and
\* the statements a call awaits return.
SpecRunFair ==
    /\ Init /\ [][RunNext]_vars
    /\ WF_vars(CheckStep(1))
    /\ \A e \in ExecIds : WF_vars(JobStep(e))

\* The scheduler with tasks deleted by their owner and workers that can die
\* while they hold a job.
RecoverNext ==
    \/ SchedNext
    \/ \E t \in SchedTasks : DeleteTask(t) /\ UNCHANGED <<chatVars, permVars, auxVars>>
    \/ \E e \in ExecIds : WorkerLost(e) /\ UNCHANGED <<chatVars, permVars, auxVars>>

SpecRecover == Init /\ [][RecoverNext]_vars

\* One worker's beat with owners who toggle and update their tasks.
OwnerNext ==
    \/ RunNext
    \/ \E t \in SchedTasks : ToggleTask(t) /\ UNCHANGED <<chatVars, permVars, auxVars>>
    \/ \E t \in SchedTasks, status \in {"same", "active", "paused"}, recalc_next \in BOOLEAN :
          UpdateTask(t, status, recalc_next) /\ UNCHANGED <<chatVars, permVars, auxVars>>

SpecOwner == Init /\ [][OwnerNext]_vars

\* The permission registry: requests are created, waited for and answered
\* while time passes; the response channel has a subscriber.
PermNext ==
    \/ \E r \in ReqIds : PermCreate(r) /\ UNCHANGED <<chatVars, schedVars, auxVars>>
    \/ PermGet /\ UNCHANGED <<chatVars, schedVars, auxVars>>
    \/ \E r \in ReqIds, timeout \in Timeouts :
          WaitStart(r, timeout) /\ UNCHANGED <<chatVars, schedVars, auxVars>>
    \/ \E r \in ReqIds : WaitReturn(r) /\ UNCHANGED <<chatVars, schedVars, auxVars>>
    \/ \E r \in ReqIds, approved \in BOOLEAN :
          PermRespond(r, approved) /\ UNCHANGED <<chatVars, schedVars, auxVars>>
    \/ \E r \in ReqIds : SubAttach(r) /\ UNCHANGED <<chatVars, schedVars, auxVars>>
    \/ \E r \in ReqIds : SubReceive(r) /\ UNCHANGED <<chatVars, schedVars, auxVars>>
    \/ \E r \in ReqIds : SubTimeout(r) /\ UNCHANGED <<chatVars, schedVars, auxVars>>
    \/ PermTick /\ UNCHANGED <<chatVars, schedVars, auxVars>>

SpecPerm == Init /\ [][PermNext]_vars


\* One permission request with several callers of wait_for_response.
CoWaitNext ==
    \/ \E r \in ReqIds : PermCreate(r) /\ UNCHANGED <<chatVars, schedVars, auxVars>>
    \/ \E w \in CoWaiters, timeout \in {1, MaxTimeout} :
          CoWaitStart(w, timeout) /\ UNCHANGED <<chatVars, schedVars>>
    \/ \E w \in CoWaiters : CoWaitReturn(w) /\ UNCHANGED <<chatVars, schedVars>>
    \/ \E r \in ReqIds, approved \in BOOLEAN :
          PermRespond(r, approved) /\ UNCHANGED <<chatVars, schedVars, auxVars>>
    \/ CoTick /\ UNCHANGED <<chatVars, schedVars>>

SpecCoWait == Init /\ [][CoWaitNext]_vars

\* ------------------------------------------------------------- claims: log
NoDupSeq(l) == \A i, j \in 1..Len(l) : i # j => l[i].seq # l[j].seq

IsStrictlyIncreasing(s) == \A i \in 1..(Len(s) - 1) : s[i].seq < s[i + 1].seq

\* C2: a resumer started with cursor N has delivered only rows with seq > N,
\* each once and in increasing seq order, each a row of the log, and it has
\* skipped none: every committed row with N < seq <= its cursor was delivered.
C2_ResumeExact ==
    resState = "on" =>
        /\ \A i \in 1..Len(resOut) : resOut[i].seq > resN
        /\ IsStrictlyIncreasing(resOut)
        /\ Range(resOut) \subseteq Range(log) \cup Range(removedRows)
        /\ resCursor = IF Len(resOut) = 0 THEN resN ELSE resOut[Len(resOut)].seq
        /\ \A i \in 1..Len(log) :
              (resN < log[i].seq /\ log[i].seq <= resCursor) => log[i] \in Range(resOut)

\* C2 witness: a resumer started at N > 0 with rows at or below N in the log
\* has delivered rows in two reads, the later ones appended after it connected.
C2_Witness ==
    /\ resState = "on"
    /\ resN > 0
    /\ Len(resOut) > PollLimit
    /\ \E i \in 1..Len(log) : log[i].seq <= resN

\* ---------------------------------------------------- log of one message
SnapshotRowsOf(m) ==
    SelectSeq(log, LAMBDA row : row.message_id = m /\ row.kind \in SNAPSHOT_EVENT_KINDS)
AgentRowsOf(s) == SelectSeq(log, LAMBDA row : row.stream_id = s /\ row.src = "agent")
AsItems(rows) == [i \in 1..Len(rows) |-> Item(rows[i].kind, rows[i].text)]
LogText(m) ==
    LET rows == SelectSeq(log, LAMBDA row : row.message_id = m /\ row.kind = "assistant_text")
    IN Concat([i \in 1..Len(rows) |-> rows[i].text])
HasRow(s, kind) == \E i \in 1..Len(log) : log[i].stream_id = s /\ log[i].kind = kind

\* No task is running and no appender has a statement in flight.
Quiescent ==
    /\ \A r \in Runtimes : rt[r].pc \in {"idle", "done"}
    /\ perm.pc # "append"

\* C3: at a quiescent point, every assistant message with a terminal
\* stream_status has content_render.events equal, in order, to the
\* snapshot-kind events the log holds for it (whoever appended them), and
\* content_text equal to the concatenated text of its assistant_text events.
C3_SnapshotMatchesLog ==
    Quiescent =>
        \A m \in MsgIds :
            (messages[m].exists /\ messages[m].status \in Terminal) =>
                /\ messages[m].render = AsItems(SnapshotRowsOf(m))
                /\ messages[m].content_text = LogText(m)

\* C4: once the stream_status of a message is completed, interrupted or
\* failed, no step changes it.
C4_TerminalMonotone ==
    [][\A m \in MsgIds :
          messages[m].status \in Terminal => messages'[m].status = messages[m].status]_vars

\* C5: when the execution of a runtime's task has ended (normal completion,
\* agent error, zero events, cancel request, cancellation of the task), the
\* stream_status of its message is completed, interrupted or failed.
C5_ExitTerminal ==
    \A r \in Runtimes :
        (rt[r].pc = "done" /\ rt[r].ran) => messages[rt[r].msg].status \in Terminal

C5_Witness ==
    \E r \in Runtimes :
        /\ rt[r].pc = "done" /\ rt[r].ran
        /\ ~rt[r].cancelled
        /\ rt[r].event_count > 0
        /\ messages[rt[r].msg].status = "interrupted"

\* C6: a runtime whose cancel event was set (request_cancel between its
\* register and its unregister, or a pending cancel found by its register)
\* ends with stream_status interrupted.
C6_CancelInterrupts ==
    \A r \in Runtimes :
        (rt[r].pc = "done" /\ evSet[r]) => messages[rt[r].msg].status = "interrupted"

\* register with a pending deadline that has not passed returns a set event
\* and leaves no pending flag.
C7_Register ==
    \A r \in Runtimes :
        (rt[r].pc = "boot" /\ rt'[r].pc = "connect") =>
            /\ (pending # NoPending /\ pending >= now) => (evSet'[r] /\ rt'[r].preset)
            /\ pending' = NoPending

\* A runtime that registered on a pending cancel applies no agent event and,
\* once through run(), has stream_started in the log and is interrupted.
C7_NoAgentEvent ==
    \A r \in Runtimes :
        rt[r].preset =>
            /\ rt[r].event_count = 0
            /\ rt[r].snap = <<>> /\ rt[r].buffer = <<>>
            /\ Len(AgentRowsOf(r)) = 0
            /\ messages[rt[r].msg].render = <<>>
            /\ messages[rt[r].msg].content_text = <<>>
            /\ rt[r].pc = "done" =>
                  /\ HasRow(r, "stream_started")
                  /\ HasRow(r, "cancelled")
                  /\ messages[rt[r].msg].status = "interrupted"

\* C7: request_cancel with no runtime registered, then a register before the
\* pending flag expires: the event comes back set and the flag is cleared;
\* the runtime appends stream_started, applies no agent event to log or
\* snapshot, and ends interrupted (not failed).
C7_PendingCancel ==
    /\ []C7_NoAgentEvent
    /\ [][C7_Register]_vars
    /\ \A r \in Runtimes :
          rt[r].preset ~> (rt[r].pc = "done" /\ messages[rt[r].msg].status = "interrupted")

C7_Witness ==
    \E r \in Runtimes :
        /\ rt[r].preset
        /\ rt[r].pc = "done"
        /\ rt[r].agentLeft > 0
        /\ HasRow(r, "stream_started")
        /\ messages[rt[r].msg].status = "interrupted"

\* C8: a runtime that observed a cancel has appended no agent event it did
\* not consume before the cancel, its message ends interrupted with
\* active_stream_id null, and content_text is the concatenated text of
\* exactly the assistant_text events of the message in the log.
C8_CancelMidStream ==
    \A r \in Runtimes :
        (rt[r].cancelled /\ rt[r].pc = "done") =>
            /\ Len(AgentRowsOf(r)) <= rt[r].event_count
            /\ messages[rt[r].msg].status = "interrupted"
            /\ messages[rt[r].msg].active_stream_id = 0
            /\ messages[rt[r].msg].content_text = LogText(rt[r].msg)

\* C9: a runtime started on a message that another stream holds writes
\* nothing: no row of its stream is in the log and it never becomes the
\* active stream of the message.
C9_HeldStartFails ==
    \A r \in Runtimes :
        rt[r].onHeld =>
            /\ \A i \in 1..Len(log) : log[i].stream_id # r
            /\ messages[rt[r].msg].active_stream_id # r

\* ------------------------------------------------------------ queue merge
RECURSIVE JoinNewLine(_)
JoinNewLine(calls) ==
    IF Len(calls) = 0 THEN <<>>
    ELSE IF Len(calls) = 1 THEN calls[1]
    ELSE JoinNewLine(SubSeq(calls, 1, Len(calls) - 1)) \o NewLine \o calls[Len(calls)]

\* C10 as stated: after n upserts with no pop_next, clear or expiry between
\* them, one entry exists and its content is content_1 "\n" ... "\n"
\* content_n in call order.
C10_MergeAlways ==
    Len(qHist.calls) > 0 =>
        (queue # NoQueue /\ queue.content = JoinNewLine(qHist.calls))

\* C10 amended: the same when no update replaced the content either.
C10_MergeNoUpdate ==
    (Len(qHist.calls) > 0 /\ ~qHist.updated) =>
        (queue # NoQueue /\ queue.content = JoinNewLine(qHist.calls))

C10_Witness ==
    /\ Len(qHist.calls) >= 2
    /\ ~qHist.updated
    /\ qHist.calls[1] # qHist.calls[2]
    /\ queue.content = qHist.calls[1] \o NewLine \o qHist.calls[2]
    /\ \E c \in QClients : qClient[c].pc = "retry"

\* ---------------------------------------------------------------- handoff
\* _process_next_queued with a queued follow-up: the key is deleted and the
\* popped content is what the runtime goes on with; with none, the runtime
\* goes to the final context usage.
C11_PopStep ==
    \A r \in Runtimes :
        (rt[r].pc = "queue_pop" /\ rt'[r].pc # "queue_pop") =>
            IF queue # NoQueue
            THEN /\ queue' = NoQueue
                 /\ rt'[r].pc = "queue_create"
                 /\ rt'[r].prompt = queue.content
            ELSE rt'[r].pc = "final_usage"

\* A runtime that popped a follow-up and returned from run(): its stream has
\* queue_processing and no complete event, its message is completed, and
\* exactly one runtime was started, on a new message, with the popped content
\* as prompt.
C11_HandedOff ==
    \A r \in Runtimes :
        (rt[r].handoff # 0 /\ rt[r].pc \in {"exit", "done"}) =>
            /\ HasRow(r, "queue_processing")
            /\ ~HasRow(r, "complete")
            /\ messages[rt[r].msg].status = "completed"
            /\ rt[r].handoff # rt[r].msg
            /\ Cardinality({k \in Runtimes : rt[k].pc # "idle" /\ rt[k].msg = rt[r].handoff}) = 1
            /\ \A k \in Runtimes :
                  (rt[k].pc # "idle" /\ rt[k].msg = rt[r].handoff) =>
                      (k # r /\ rt[k].prompt = rt[r].prompt)

\* C11: a follow-up in the queue when a stream finishes completed is removed
\* from the queue; the runtime appends queue_processing and no complete event
\* for its stream and starts exactly one runtime, on a new assistant message,
\* whose prompt is the popped merged content.
C11_Handoff ==
    /\ []C11_HandedOff
    /\ [][C11_PopStep]_vars

C11_Witness ==
    \E r \in Runtimes :
        /\ rt[r].pc = "done" /\ rt[r].handoff # 0
        /\ rt[r].prompt = FollowUp \o NewLine \o FollowUp
        /\ \E k \in Runtimes : k # r /\ rt[k].pc = "loop" /\ rt[k].prompt = rt[r].prompt

\* C12: no follow-up that was accepted while a stream was active, and whose
\* stream ended completed, sits in the queue with no stream running for the
\* chat.
C12_NoStrandedFollowUp ==
    ~ /\ queue # NoQueue
      /\ qHist.during # 0
      /\ rt[qHist.during].pc = "done"
      /\ messages[rt[qHist.during].msg].status = "completed"
      /\ \A r \in Runtimes : rt[r].pc \in {"idle", "done"}

\* ------------------------------------------------------ claims: scheduler
ExecsOf(t) == {e \in ExecIds : executions[e].status # "none" /\ executions[e].task_id = t}
Claimers(t) == {c \in SchedCallers : checker[c].pc # "idle" /\ ClaimedTask(c, t)}

C14_StaleReaped ==
    \A c \in SchedCallers :
        checker[c].pc = "dispatch" =>
            \A e \in checker[c].stale :
                executions[e].status # "none" =>
                    /\ executions[e].status = "failed"
                    /\ executions[e].completed_at # NoTime
                    /\ tasks[executions[e].task_id].status = "active"

\* The step in which the job of execution e ends.
C15_FinalStep ==
    \A e \in ExecIds :
        (jobs[e].pc \in {"queued", "stream"} /\ jobs'[e].pc = "done") =>
            LET t == executions[e].task_id
            IN /\ executions'[e].status \in {"success", "failed"}
               /\ executions'[e].completed_at # NoTime
               /\ IF tasks[t].recurrence_type = "once"
                  THEN /\ tasks'[t].next_execution = NoTime
                       /\ tasks'[t].status =
                             IF executions'[e].status = "success"
                             THEN "completed" ELSE "failed"
                  ELSE tasks'[t].status = "active"

WaitLimit(r) ==
    IF pwait[r].timeout < preq[r].expires_at - pwait[r].started
    THEN pwait[r].timeout
    ELSE preq[r].expires_at - pwait[r].started

\* C16: a wait on a pending request is never blocked after the request's
\* expiry, and it returns no later than min(timeout, remaining TTL) after its
\* start: with the response if respond happened before that deadline, with
\* null if no respond happened up to it.
C16_WaitBounded ==
    \A r \in ReqIds :
        /\ pwait[r].pc = "waiting" => ptime <= preq[r].expires_at
        /\ (pwait[r].pc = "returned" /\ pwait[r].on_pending) =>
              /\ pwait[r].returned_at <= pwait[r].started + WaitLimit(r)
              /\ (/\ preq[r].responded_at # NoTime
                  /\ preq[r].responded_at < pwait[r].started + WaitLimit(r))
                     => pwait[r].result \in {"approved", "denied"}
              /\ (\/ preq[r].responded_at = NoTime
                  \/ preq[r].responded_at > pwait[r].started + WaitLimit(r))
                     => pwait[r].result = "null"

\* The request is missing or expired at the current time.
MissingOrExpired(r) == preq[r].state # "listed" \/ preq[r].expires_at <= ptime

\* A respond step answered 404 / answered 200 / stored a response.
C17_RespondStep ==
    \A r \in ReqIds :
        /\ (\/ pbus'[r].status = 404 /\ pbus[r].status # 404
            \/ Len(pbus'[r].published) > Len(pbus[r].published)) =>
              /\ pbus'[r].status = 404
              /\ MissingOrExpired(r)
              /\ preq'[r].response = preq[r].response
              /\ preq'[r].event = preq[r].event
              /\ preq'[r].state # "listed"
              /\ Len(pbus[r].published) < MaxPublish =>
                    /\ pbus'[r].published = Append(pbus[r].published, ExpiredDenial)
                    /\ pbus[r].sub = "listening" =>
                          pbus'[r].inbox = Append(pbus[r].inbox, ExpiredDenial)
        /\ (pbus'[r].status = 200 /\ pbus[r].status # 200) => ~MissingOrExpired(r)
        /\ (preq'[r].response # preq[r].response \/ preq'[r].event # preq[r].event) =>
              (~MissingOrExpired(r) /\ pbus'[r].status = 200)

\* C17: a respond for a request that is missing or expired stores nothing,
\* publishes the denial "Permission request expired. Please try again." on the
\* request's response channel and answers 404, and no other respond does; a
\* subscriber attached to the channel returns that denial and never times out
\* with the denial delivered.
C17_ExpiredDenied ==
    /\ [][C17_RespondStep]_vars
    /\ [](\A r \in ReqIds :
            /\ \A i \in 1..Len(pbus[r].published) : pbus[r].published[i] = ExpiredDenial
            /\ pbus[r].sub = "returned" =>
                  IF pbus[r].inbox # <<>> THEN pbus[r].result = "denied"
                  ELSE pbus[r].result = "timeout")

\* C17 witness: a respond came for an expired request that had no response:
\* nothing was stored, the answer was 404, and the subscriber attached to the
\* channel returned the denial.
C17_Witness ==
    \E r \in ReqIds :
        /\ preq[r].state = "popped" /\ preq[r].response = "none" /\ ~preq[r].event
        /\ preq[r].expires_at <= ptime
        /\ pbus[r].status = 404
        /\ pbus[r].published = <<ExpiredDenial>>
        /\ pbus[r].sub = "returned" /\ pbus[r].result = "denied"

\* ------------------------------------------------------------------- C18
\* The scenario has run to its end: the task of message 1 returned.
S1Done == \E r \in Runtimes : rt[r].pc = "done" /\ rt[r].msg = 1
S1LogKinds == [i \in 1..Len(log) |-> log[i].kind]
S1Kinds ==
    <<"stream_started", "assistant_text", "tool_started", "tool_completed",
      "assistant_text", "complete">>
S1KindsWithUsage ==
    <<"stream_started", "assistant_text", "tool_started", "tool_completed",
      "assistant_text", "system", "complete">>
S1Text == <<"Hi", " there.">>

\* C18 as stated: the scenario ends with last_event_seq = 6, the log order
\* stream_started, assistant_text, tool_started, tool_completed,
\* assistant_text, complete, content_text "Hi there.", content_render.events
\* of length 5, stream_status completed and active_stream_id null.
C18_AsStated ==
    S1Done =>
        /\ last_event_seq = 6
        /\ S1LogKinds = S1Kinds
        /\ messages[1].content_text = S1Text
        /\ Len(messages[1].render) = 5
        /\ messages[1].status = "completed"
        /\ messages[1].active_stream_id = 0

\* C18: the scenario ends with content_text "Hi there.", content_render.events
\* equal to the four agent events, stream_status completed and
\* active_stream_id null; the log is stream_started, assistant_text,
\* tool_started, tool_completed, assistant_text, complete with
\* last_event_seq = 6 when the final context-usage refresh emits nothing, and
\* has one system row before complete with last_event_seq = 7 when it does.
C18_HappyPath ==
    S1Done =>
        /\ messages[1].content_text = S1Text
        /\ messages[1].render = S1Script
        /\ Len(messages[1].render) = 4
        /\ messages[1].status = "completed"
        /\ messages[1].active_stream_id = 0
        /\ last_event_seq = Len(log)
        /\ \A i \in 1..Len(log) : log[i].seq = i /\ log[i].message_id = 1
        /\ \/ last_event_seq = 6 /\ S1LogKinds = S1Kinds
           \/ last_event_seq = 7 /\ S1LogKinds = S1KindsWithUsage

\* C18 witness: the scenario ended with the six rows of the statement in the
\* log and the four agent events in the snapshot.
C18_Witness ==
    /\ S1Done
    /\ last_event_seq = 6 /\ S1LogKinds = S1Kinds
    /\ messages[1].render = S1Script
    /\ messages[1].content_text = S1Text
    /\ messages[1].status = "completed"

\* ------------------------------------------------------------------- C19
\* C19: the message of a background task that ran its first step, was
\* cancelled while the message was in_progress and has ended is interrupted
\* with active_stream_id null, wherever the task was when it was cancelled.
C19_CancelledInterrupted ==
    \A r \in Runtimes :
        (rt[r].pc = "done" /\ rt[r].ran /\ rt[r].killed = "in_progress") =>
            /\ messages[rt[r].msg].status = "interrupted"
            /\ messages[rt[r].msg].active_stream_id = 0

\* ------------------------------------------------------------------- C20
\* C20: in every reachable state an assistant message whose stream_status is
\* completed, interrupted or failed has active_stream_id null.
C20_TerminalNull ==
    \A m \in MsgIds :
        (messages[m].exists /\ messages[m].status \in Terminal) =>
            messages[m].active_stream_id = 0

\* ------------------------------------------------------------------- C21
\* C21: an endpoint call that appended its event to the log returns success,
\* whether or not the publish on the live channel succeeded.
C21_PublishBestEffort ==
    (perm.pc = "returned" /\ PermAppended) => perm.http = 200

\* ------------------------------------------------------------------- C22
\* C22: a runtime that went through run() and has ended wrote interrupted if
\* a cancel was observed in the consume loop (also before any agent event);
\* else failed, with an error event in the log, if an exception escaped or
\* the loop ended with zero agent events; else completed.
C22_TerminalStatus ==
    \A r \in Runtimes :
        (rt[r].pc = "done" /\ HasRow(r, "stream_started") /\ rt[r].killed = "no") =>
            messages[rt[r].msg].status =
                IF rt[r].cancelled THEN "interrupted"
                ELSE IF HasRow(r, "error") \/ rt[r].event_count = 0 THEN "failed"
                ELSE "completed"

\* ------------------------------------------------------------------- C23
TerminalKinds == {"complete", "cancelled", "error", "queue_processing"}
StreamRows(r) == {i \in 1..Len(log) : log[i].stream_id = r}
TerminalRows(r) == {i \in StreamRows(r) : log[i].kind \in TerminalKinds}

\* C23: the log never holds more than one terminal control event of a stream
\* nor any event of the stream after it, and a stream that went through run()
\* and has ended has its terminal control event in the log.
C23_TerminalLast ==
    \A r \in Runtimes :
        /\ Cardinality(TerminalRows(r)) <= 1
        /\ \A i \in TerminalRows(r), j \in StreamRows(r) : j <= i
        /\ (rt[r].pc = "done" /\ HasRow(r, "stream_started") /\ rt[r].killed = "no") =>
              TerminalRows(r) # {}

\* ------------------------------------------------------------------- C24
\* C24: whenever the log holds the terminal control event (complete,
\* cancelled or error) of a stream, the message of that event has a terminal
\* stream_status and active_stream_id null: the final snapshot was written
\* before the event was appended.
C24_SnapshotBeforeTerminal ==
    \A i \in 1..Len(log) :
        (log[i].kind \in {"complete", "cancelled", "error"} /\ log[i].src = "runtime") =>
            /\ messages[log[i].message_id].status \in Terminal
            /\ messages[log[i].message_id].active_stream_id = 0

\* ------------------------------------------------------------------- C25
\* C25: cancel_active_stream is never invoked twice for a stream, and once the
\* cancel has been observed (was_cancelled) it has been invoked exactly once,
\* wherever the monitor, the consume loop and run() are.
C25_CancelOnce ==
    /\ runner.calls <= 1
    /\ runner.was_cancelled => runner.calls = 1

\* C25 witness: the monitor observed the cancel and cancelled the main task
\* in __anext__, the loop called cancel_stream again, run() completed the
\* stream as interrupted, and the agent was cancelled once.
C25_Witness ==
    /\ runner.pc = "returned" /\ runner.outcome = "interrupted"
    /\ runner.mon = "done" /\ runner.event_count > 0
    /\ runner.calls = 1

\* -------------------------------------------------- unregister and pending
\* The unregister step of a runtime (execute_chat, finally).
C26_UnregisterStep ==
    \A r \in Runtimes :
        (rt[r].pc = "exit" /\ rt'[r].pc = "done") =>
            /\ regEvent' = (IF regEvent = r THEN 0 ELSE regEvent)
            /\ pending' = pending

\* C26: unregister(chat_id, event) removes the live registration and leaves
\* the pending-cancel flag as it was, so that a pending cancel recorded
\* before the unregister is still there for the next register.
C26_UnregisterKeepsPending == [][C26_UnregisterStep]_vars

\* ---------------------------------------------------------- emission order
\* Item `a` was emitted no later than item `b`: emits[p] = a and emits[q] = b
\* for some p <= q.
EmittedNoLater(emits, a, b) ==
    \E p \in 1..Len(emits) : \E q \in p..Len(emits) : emits[p] = a /\ emits[q] = b

\* No row of `rows` lies behind a row of an event that was emitted later.
InEmissionOrder(rows, emits) ==
    \A i \in 1..Len(rows) : \A j \in i..Len(rows) :
        EmittedNoLater(emits, rows[i], rows[j])

\* Index of the first row of stream s of one of `kinds` written by the
\* runtime (0: none).
FirstControl(s, kinds) ==
    LET at == {i \in 1..Len(log) : /\ log[i].stream_id = s
                                   /\ log[i].src = "runtime"
                                   /\ log[i].kind \in kinds}
    IN IF at = {} THEN 0 ELSE CHOOSE i \in at : \A k \in at : i <= k

\* C27: the snapshot events of a stream are in the log in the order the
\* runtime emitted them (no row of an event behind a row of a later one);
\* stream_started, emitted before every agent event, has a lower seq than all
\* of them, and a terminal control event, emitted after the last agent
\* event, has a higher seq than all of them.
C27_EmissionOrder ==
    \A r \in Runtimes :
        /\ InEmissionOrder(AsItems(AgentRowsOf(r)), rt[r].snap)
        /\ \A i \in 1..Len(log) :
              (log[i].stream_id = r /\ log[i].src = "agent") =>
                 /\ FirstControl(r, {"stream_started"}) \in 1..(i - 1)
                 /\ FirstControl(r, TerminalKinds) \in {0} \cup ((i + 1)..Len(log))

\* ------------------------------------------------------- flush on a timer
\* C28: snapshot events buffered while the runtime waits for the agent are
\* appended to the log (the buffer is emptied) once the flush interval has
\* passed, without a further agent event.
C28_FlushWithoutEvent ==
    \A r \in Runtimes :
        (rt[r].pc = "loop" /\ Len(rt[r].buffer) > 0) ~> (Len(rt[r].buffer) = 0)

\* ------------------------------------------------------------- flush rule
\* The consume loop handles an agent event: it flushes (goes on to
\* _flush_event_buffer and the snapshot write) exactly when something is
\* pending and the interval has passed or FlushCount events are pending. The
\* flush, once through, leaves nothing buffered or pending and the snapshot
\* with every event applied so far.
C29_LoopStep ==
    \A r \in Runtimes :
        /\ (rt[r].pc = "loop" /\ rt'[r].event_count = rt[r].event_count + 1) =>
              \E elapsed \in BOOLEAN :
                  (rt'[r].pc = "flush_snap") <=>
                      (rt'[r].pending > 0 /\ (elapsed \/ rt'[r].pending >= FlushCount))
        /\ (rt[r].pc = "flush_snap" /\ rt'[r].pc = "loop") =>
              /\ rt'[r].pending = 0
              /\ rt'[r].buffer = <<>>
              /\ messages'[rt[r].msg].render = rt[r].snap

\* Between two steps of the loop fewer than FlushCount events are buffered.
C29_BelowCount ==
    \A r \in Runtimes :
        rt[r].pc = "loop" =>
            /\ Len(rt[r].buffer) < FlushCount
            /\ rt[r].pending < FlushCount
            /\ Len(rt[r].buffer) <= rt[r].pending

MatchesSchedule(recurrence_type, scheduled_time, scheduled_day, l) ==
    LET d == DateOfDay(l \div Slots)
    IN /\ l % Slots = scheduled_time
       /\ recurrence_type = "weekly" => Weekday(d) = scheduled_day
       /\ recurrence_type = "monthly" =>
             d.day = MinDay(scheduled_day, MonthRange(d.year, d.month))

\* The instants of the 62 days from `first` on that match the schedule.
MatchingFrom(first) ==
    {t \in first..(first + 62 * Slots) :
        MatchesSchedule(calc.recurrence_type, calc.scheduled_time, calc.scheduled_day,
                        ToLocal(t, calc.tz).w)}

SmallestOf(S) == CHOOSE t \in S : \A u \in S : t <= u

\* C30: _next_run_utc returns the smallest instant at or after from-time
\* whose local wall-clock time is scheduled_time and whose day matches the
\* recurrence (monthly: the scheduled day, or the last day of a shorter
\* month).
C30_SmallestAtOrAfter ==
    (calc.pc = "returned" /\ calc.kind = "at") =>
        calc.result = SmallestOf(MatchingFrom(calc.from_time))

\* In a zone without a transition the instant returned is the smallest
\* matching one after from-time.
C30_FixedZoneSmallestAfter ==
    (calc.pc = "returned" /\ calc.kind = "at" /\ calc.tz.shift = 0) =>
        calc.result = SmallestOf(MatchingFrom(calc.from_time + 1))

\* ------------------------------------------------------- concurrent waits
\* The callers that returned the response of the request.
GotResponse == {w \in CoWaiters : /\ cowait[w].pc = "returned"
                                  /\ cowait[w].result \in {"approved", "denied"}}

\* C31: of the concurrent wait calls on one request at most one returns the
\* response; once it has, the request is no longer listed, and every other
\* call returns null.
C31_OneResponse ==
    /\ Cardinality(GotResponse) <= 1
    /\ GotResponse # {} =>
          /\ preq[CoRequest].state = "popped"
          /\ \A w \in CoWaiters \ GotResponse :
                cowait[w].pc = "returned" => cowait[w].result = "null"

\* Two calls were waiting when the respond came; one returned the response
\* and the other null, in the same instant.
C31_Witness ==
    \E w, v \in CoWaiters :
        /\ w # v
        /\ cowait[w].pc = "returned" /\ cowait[v].pc = "returned"
        /\ cowait[w].result = "approved" /\ cowait[v].result = "null"
        /\ cowait[w].started < preq[CoRequest].responded_at
        /\ cowait[v].started < preq[CoRequest].responded_at
        /\ cowait[v].returned_at = preq[CoRequest].responded_at
        /\ cowait[v].deadline > cowait[v].returned_at

\* ------------------------------------------------------ visibility in order
\* The rows of the open transactions (allocated, not committed).
UncommittedSeqs ==
    UNION {{tx[c].rows[i].seq : i \in 1..Len(tx[c].rows)} :
              c \in {k \in Callers : tx[k].pc # "idle"}}

\* C32: an event is visible to readers only when no event of the chat with a
\* lower seq is still uncommitted, so a resumer whose cursor stands at k has
\* delivered every row the log holds between its start cursor and k.
C32_VisibleInOrder ==
    /\ \A u \in UncommittedSeqs : \A i \in 1..Len(log) : log[i].seq < u
    /\ resState = "on" =>
          \A i \in 1..Len(log) :
              (log[i].seq > resN /\ log[i].seq <= resCursor) =>
                  \E j \in 1..Len(resOut) : resOut[j] = log[i]

\* A resumer stands at the last committed seq while a second appender holds
\* the next seq uncommitted.
C32_Witness ==
    /\ resState = "on" /\ Len(resOut) >= 1
    /\ resCursor = last_event_seq
    /\ \E c \in Callers : tx[c].pc = "inserted" /\ tx[c].rows[1].seq = last_event_seq + 1

\* ------------------------------------------------------ buffer flush race
\* C33: with the poller's emit interleaving with the consume loop on one
\* runtime, every snapshot event applied to the in-memory snapshot is in the
\* log exactly once when the stream has ended: the agent rows of the stream
\* are the events of the snapshot, none dropped and none twice.
C33_WrittenOnce ==
    \A r \in Runtimes :
        (rt[r].pc \in {"exit", "done"} /\ rt[r].killed = "no"
            /\ HasRow(r, "stream_started")) =>
            AsItems(AgentRowsOf(r)) = rt[r].snap

\* ------------------------------------------------------- queue key writes
\* What one write of the key does to the entry it finds.
Removed == queue # NoQueue /\ queue' = NoQueue
Extended ==
    /\ queue' # NoQueue
    /\ queue # NoQueue =>
          /\ queue'.id = queue.id
          /\ Len(queue'.content) > Len(queue.content) + 1
          /\ SubSeq(queue'.content, 1, Len(queue.content) + 1) = queue.content \o NewLine
Replaced == queue # NoQueue /\ queue' = UpdateData(queue, UpdateContent)

\* C34 as stated: under any interleaving of upsert, update, clear and
\* pop_next on one chat's key, the content of a successful upsert stays in the
\* stored entry until the entry leaves whole (returned by the one pop_next
\* that deletes it, or removed by clear): every change of the key either
\* appends to the entry it finds or removes the entry.
C34_NeverOverwritten == [][queue' # queue => (Removed \/ Extended)]_vars

\* C34 amended: the same, except that a successful update replaces the
\* content of the entry it finds, and nothing else of it.
C34_OverwrittenByUpdateOnly ==
    [][queue' # queue => (Removed \/ Extended \/ Replaced)]_vars

\* Two upserts were merged and the last write has invalidated the WATCH of a
\* client that is on its second attempt or a later one.
C34_Witness ==
    /\ Len(qHist.calls) >= 2
    /\ queue # NoQueue
    /\ \E c \in QClients : qClient[c].pc = "got" /\ qClient[c].dirty /\ qClient[c].attempts >= 2

\* ------------------------------------------------------- handoff failures
\* The runtimes that hold message m and have not returned.
RunningFor(m) == {k \in Runtimes : rt[k].msg = m /\ rt[k].pc \notin {"idle", "done"}}

\* C35: an assistant message created in_progress by the follow-up handoff is
\* held by a runtime that has not returned for as long as it is in_progress,
\* once the handoff that created it is over.
C35_FollowUpRuns ==
    \A r \in Runtimes :
        (rt[r].handoff # 0 /\ rt[r].pc # "queue_emit"
            /\ messages[rt[r].handoff].status = "in_progress") =>
            RunningFor(rt[r].handoff) # {}

\* C36: a stream that ends interrupted or failed has not consumed the queued
\* follow-up: its runtime has created no follow-up message from a popped
\* entry.
C36_FailedKeepsQueue ==
    \A r \in Runtimes :
        (rt[r].msg # 0 /\ messages[rt[r].msg].status \in {"interrupted", "failed"}) =>
            rt[r].handoff = 0

\* The branches themselves: once run() has decided on interrupted or failed,
\* no step of that runtime changes the queue key or starts a runtime.
C36_BranchFrame ==
    [][\A r \in Runtimes :
          (rt[r].status \in {"interrupted", "failed"} /\ rt'[r] # rt[r]) =>
              /\ queue' = queue
              /\ \A k \in Runtimes \ {r} : rt[k].pc = "idle" => rt'[k].pc = "idle"]_vars

\* -------------------------------------------------- handoff and the registry
\* Runtime k has registered its cancel event and has not unregistered it.
Registered(k) == rt[k].pc \in RunPcs \cup {"connect", "exit"}
FollowUpOf(r) == {k \in Runtimes \ {r} : rt[r].handoff # 0 /\ rt[k].msg = rt[r].handoff}

\* C37: when a runtime hands off and the follow-up runtime has registered,
\* the unregister of the old runtime leaves the registration alone (the
\* registry names the same runtime before and after, and no event is reset),
\* and for as long as the follow-up runtime is registered the chat's entry is
\* its event, the one request_cancel sets.
C37_NewStaysRegistered ==
    /\ [][\A r \in Runtimes :
            (rt[r].pc = "exit" /\ rt'[r].pc = "done" /\ regEvent \notin {0, r}) =>
                (regEvent' = regEvent /\ evSet' = evSet)]_vars
    /\ [](\A r \in Runtimes : \A k \in FollowUpOf(r) : Registered(k) => regEvent = k)

\* The old runtime has unregistered, the follow-up runtime is registered, and
\* a request_cancel made after its register has set its event.
C37_Witness ==
    \E r \in Runtimes : \E k \in FollowUpOf(r) :
        /\ rt[r].pc = "done"
        /\ Registered(k)
        /\ regEvent = k
        /\ evSet[k] /\ ~rt[k].preset

\* ------------------------------------------------- claims: task owners
RunningOf(t) == {e \in ExecsOf(t) : executions[e].status = "running"}

\* C38: at any time a scheduled task has at most one TaskExecution in status
\* running, whatever check_due_tasks, run_scheduled_task, toggle_task and
\* update_task do in between.
C38_OneRunning == \A t \in SchedTasks : Cardinality(RunningOf(t)) <= 1

\* C39: a paused task is set to active only by its owner (toggle_task or
\* update_task, which write the task row alone): no step that finishes an
\* execution or claims tasks turns a paused task active.
C39_PausedStays ==
    [][\A t \in SchedTasks :
          (tasks[t].status = "paused" /\ tasks'[t].status = "active") =>
              (executions' = executions /\ jobs' = jobs /\ checker' = checker)]_vars

\* ------------------------------------------------ respond before the wait
\* C40: when respond stored a response before the wait on the request
\* began, and the request was listed and not expired at that moment, the wait
\* does not let time pass and returns the stored response.
C40_AnsweredAtOnce ==
    \A r \in ReqIds :
        (/\ pwait[r].pc # "idle"
         /\ pwait[r].on_pending
         /\ preq[r].responded_at # NoTime
         /\ preq[r].responded_at < pwait[r].started) =>
            /\ pwait[r].pc = "waiting" => ptime = pwait[r].started
            /\ pwait[r].pc = "returned" =>
                  /\ pwait[r].returned_at = pwait[r].started
                  /\ pwait[r].result = preq[r].response

====
